---- MODULE Spec2Model ----
(***************************************************************************)
(* A model of q1tsim's circuit executor (src/src/circuit.rs): a Circuit    *)
(* holds an operation list, an optional quantum state (one column per      *)
(* shot) and an optional classical register (one u64 word per shot).       *)
(* execute() allocates both and replays the list; reexecute() replays it   *)
(* against what the previous run left.                                     *)
(*                                                                         *)
(* Amplitudes are exact: the column of a shot is a record [k, v] that      *)
(* stands for the vector v / sqrt(2)^k, v a vector of Gaussian integers    *)
(* <<re, im>> indexed by basis state 0 .. 2^nr_qbits - 1 (qubit 0 is the   *)
(* most significant bit of the index).  The record is kept reduced (k as   *)
(* small as possible), so that two columns are equal exactly when the      *)
(* vectors they stand for are equal.  Floating-point rounding is left out. *)
(* Only Clifford gates are in the gate alphabet, which keeps every         *)
(* measurement probability in {0, 1/2^m} and every column representable.   *)
(***************************************************************************)
EXTENDS Integers, Sequences, FiniteSets, TLC

\* The longest operation list built freely from one family of operations.
MaxOps == 2

\* The longest operation list of the circuits that are exported.
MaxQasmOps == 2

\* The longest control list of an exported conditional gate, and the largest
\* classical register of an exported circuit.
MaxControl == 3

\* the largest number of qubits bit_permutation is called with
MaxPermutationBits == 3

VARIABLES
    nr_qbits,   \* Circuit.nr_qbits
    nr_cbits,   \* Circuit.nr_cbits
    q_state,    \* Circuit.q_state: Option<QuState>, None or Some(columns)
    c_state,    \* Circuit.c_state: Option<Array1<u64>>, None or Some(words)
    ops,        \* Circuit.ops: the operation list
    pc,         \* 0: no replay in progress; i > 0: reexecute is about to run ops[i]
    ret,        \* what the last call on the circuit returned
    hist,       \* history: the last event, and the operations the last run replayed
    stabilizer, \* a StabilizerMatrix: nr_bits, the packed operations xz, the phase bits
    applying    \* the call on the StabilizerMatrix: its gate, bits, the row its loop
                \* is at, its status, and the matrix it found

vars == <<nr_qbits, nr_cbits, q_state, c_state, ops, pc, ret, hist, stabilizer, applying>>

---------------------------------------------------------------------------
\* Option<T>: None, or Some(x)

None == << >>

Some(x) == <<x>>

IsNone(o) == o = << >>

Unwrap(o) == o[1]

---------------------------------------------------------------------------
\* Bits of unsigned words

Pow2(n) == 2 ^ n

\* (w >> k) & 1
Bit(w, k) == (w \div Pow2(k)) % 2

\* a | b, on words below 2^nbits
RECURSIVE BitOr(_, _, _)
BitOr(a, b, nbits) ==
    IF nbits = 0 THEN 0
    ELSE LET k == nbits - 1
             hi == IF Bit(a, k) = 1 \/ Bit(b, k) = 1 THEN Pow2(k) ELSE 0
         IN  hi + BitOr(a % Pow2(k), b % Pow2(k), k)

\* the number of bits needed to write w
RECURSIVE BitLen(_)
BitLen(w) == IF w = 0 THEN 0 ELSE 1 + BitLen(w \div 2)

Or(a, b) == BitOr(a, b, IF BitLen(a) > BitLen(b) THEN BitLen(a) ELSE BitLen(b))

\* w with bit k cleared
ClearBit(w, k) == w - Bit(w, k) * Pow2(k)

---------------------------------------------------------------------------
\* Complex numbers with integer parts

COMPLEX_ZERO == <<0, 0>>

COMPLEX_ONE == <<1, 0>>

COMPLEX_I == <<0, 1>>

CNeg(a) == <<0 - a[1], 0 - a[2]>>

CAdd(a, b) == <<a[1] + b[1], a[2] + b[2]>>

CMul(a, b) == <<a[1] * b[1] - a[2] * b[2], a[1] * b[2] + a[2] * b[1]>>

NormSqr(a) == a[1] * a[1] + a[2] * a[2]

\* sum of f[i] for i in lo..hi, f complex-valued
RECURSIVE CSum(_, _, _)
CSum(f, lo, hi) == IF lo > hi THEN COMPLEX_ZERO ELSE CAdd(f[lo], CSum(f, lo + 1, hi))

\* sum of f[i] for i in lo..hi, f integer-valued
RECURSIVE ISum(_, _, _)
ISum(f, lo, hi) == IF lo > hi THEN 0 ELSE f[lo] + ISum(f, lo + 1, hi)

\* m with 2^m = n (n a power of two)
RECURSIVE Log2(_)
Log2(n) == IF n <= 1 THEN 0 ELSE 1 + Log2(n \div 2)

IsPow2(n) == n >= 1 /\ Pow2(Log2(n)) = n

---------------------------------------------------------------------------
\* Gates: matrix() of each gate, as [k, m] standing for m / sqrt(2)^k,
\* m a sequence of rows

GateMatrix(g) ==
    CASE g = "X"   -> [k |-> 0, m |-> << <<COMPLEX_ZERO, COMPLEX_ONE>>,
                                        <<COMPLEX_ONE, COMPLEX_ZERO>> >>]
      [] g = "Z"   -> [k |-> 0, m |-> << <<COMPLEX_ONE, COMPLEX_ZERO>>,
                                        <<COMPLEX_ZERO, CNeg(COMPLEX_ONE)>> >>]
      [] g = "H"   -> [k |-> 1, m |-> << <<COMPLEX_ONE, COMPLEX_ONE>>,
                                        <<COMPLEX_ONE, CNeg(COMPLEX_ONE)>> >>]
      [] g = "S"   -> [k |-> 0, m |-> << <<COMPLEX_ONE, COMPLEX_ZERO>>,
                                        <<COMPLEX_ZERO, COMPLEX_I>> >>]
      [] g = "Sdg" -> [k |-> 0, m |-> << <<COMPLEX_ONE, COMPLEX_ZERO>>,
                                        <<COMPLEX_ZERO, CNeg(COMPLEX_I)>> >>]
      [] g = "CX"  -> [k |-> 0, m |->
            << <<COMPLEX_ONE, COMPLEX_ZERO, COMPLEX_ZERO, COMPLEX_ZERO>>,
               <<COMPLEX_ZERO, COMPLEX_ONE, COMPLEX_ZERO, COMPLEX_ZERO>>,
               <<COMPLEX_ZERO, COMPLEX_ZERO, COMPLEX_ZERO, COMPLEX_ONE>>,
               <<COMPLEX_ZERO, COMPLEX_ZERO, COMPLEX_ONE, COMPLEX_ZERO>> >>]

nr_affected_bits(g) == IF g = "CX" THEN 2 ELSE 1

\* get_sort_key: the affected bits of idx, first affected bit most significant
RECURSIVE get_sort_key(_, _, _)
get_sort_key(idx, nr_bits, affected_bits) ==
    IF affected_bits = << >> THEN 0
    ELSE LET n == Len(affected_bits)
             b == affected_bits[n]
             s == nr_bits - b - 1
         IN  2 * get_sort_key(idx, nr_bits, SubSeq(affected_bits, 1, n - 1)) + Bit(idx, s)

\* idx with its affected bits replaced by those of key
RECURSIVE WithKey(_, _, _, _)
WithKey(idx, nr_bits, affected_bits, key) ==
    IF affected_bits = << >> THEN idx
    ELSE LET n == Len(affected_bits)
             s == nr_bits - affected_bits[n] - 1
             rest == WithKey(idx, nr_bits, SubSeq(affected_bits, 1, n - 1), key \div 2)
         IN  ClearBit(rest, s) + (key % 2) * Pow2(s)

---------------------------------------------------------------------------
\* QuState: one column per shot

Dim(nr_bits) == Pow2(nr_bits)

AllEven(v) == \A i \in DOMAIN v : v[i][1] % 2 = 0 /\ v[i][2] % 2 = 0

\* the reduced record of the same vector
RECURSIVE Reduce(_)
Reduce(col) ==
    IF col.k >= 2 /\ AllEven(col.v)
    THEN Reduce([k |-> col.k - 2,
                 v |-> [i \in DOMAIN col.v |-> <<col.v[i][1] \div 2, col.v[i][2] \div 2>>]])
    ELSE col

\* |0...0>
ZeroColumn(nr_bits) ==
    [k |-> 0, v |-> [i \in 0 .. Dim(nr_bits) - 1 |-> IF i = 0 THEN COMPLEX_ONE ELSE COMPLEX_ZERO]]

\* QuState::new(nr_bits, nr_shots)
QuStateNew(nr_bits, nr_shots) == [s \in 1 .. nr_shots |-> ZeroColumn(nr_bits)]

\* the gate on the qubits bits of one column: the rows are permuted so that the
\* affected qubits lead, apply_slice multiplies the blocks by the matrix, and
\* the rows are permuted back
ApplyGateColumn(g, bits, nr_bits, col) ==
    LET mat == GateMatrix(g)
        d == Pow2(Len(bits))
        new(i) == CSum([j \in 0 .. d - 1 |->
                          CMul(mat.m[get_sort_key(i, nr_bits, bits) + 1][j + 1],
                               col.v[WithKey(i, nr_bits, bits, j)])], 0, d - 1)
    IN  Reduce([k |-> col.k + mat.k, v |-> [i \in DOMAIN col.v |-> new(i)]])

\* QuState::apply_gate
apply_gate(g, bits, nr_bits, q) ==
    [s \in DOMAIN q |-> ApplyGateColumn(g, bits, nr_bits, q[s])]

\* QuState::apply_conditional_gate
apply_conditional_gate(mask, g, bits, nr_bits, q) ==
    [s \in DOMAIN q |-> IF mask[s] THEN ApplyGateColumn(g, bits, nr_bits, q[s]) ELSE q[s]]

\* QuState::apply_unary_gate_all
RECURSIVE UnaryAllFrom(_, _, _, _)
UnaryAllFrom(g, bit, nr_bits, q) ==
    IF bit >= nr_bits THEN q
    ELSE UnaryAllFrom(g, bit + 1, nr_bits, apply_gate(g, <<bit>>, nr_bits, q))

apply_unary_gate_all(g, nr_bits, q) == UnaryAllFrom(g, 0, nr_bits, q)

\* the squared norm of the half of the column where qubit qbit is o, times 2^k
Weight(col, qbit, nr_bits, o) ==
    ISum([i \in DOMAIN col.v |->
            IF Bit(i, nr_bits - qbit - 1) = o THEN NormSqr(col.v[i]) ELSE 0],
         0, Dim(nr_bits) - 1)

\* outcome o has a probability above 0
CanMeasure(col, qbit, nr_bits, o) == Weight(col, qbit, nr_bits, o) > 0

\* the other half zeroed, the surviving half rescaled by 1/sqrt(p_outcome)
Collapse(col, qbit, nr_bits, o) ==
    Reduce([k |-> Log2(Weight(col, qbit, nr_bits, o)),
            v |-> [i \in DOMAIN col.v |->
                     IF Bit(i, nr_bits - qbit - 1) = o THEN col.v[i] ELSE COMPLEX_ZERO]])

\* bit cbit of word w set to outcome o, the old bit cleared first
SetBit(w, cbit, o) == Or(ClearBit(w, cbit), o * Pow2(cbit))

\* the outcomes the shots of q can give for qubit qbit
Outcomes(qbit, nr_bits, q) ==
    {o \in [DOMAIN q -> {0, 1}] : \A s \in DOMAIN q : CanMeasure(q[s], qbit, nr_bits, o[s])}

\* QuState::measure_into: the possible <<quantum state, register>> results
measure_into(qbit, cbit, nr_bits, q, c) ==
    {<<[s \in DOMAIN q |-> Collapse(q[s], qbit, nr_bits, o[s])],
       [s \in DOMAIN c |-> SetBit(c[s], cbit, o[s])]>> : o \in Outcomes(qbit, nr_bits, q)}

\* the basis states the shots of q can be found in
BasisOutcomes(nr_bits, q) ==
    {b \in [DOMAIN q -> 0 .. Dim(nr_bits) - 1] :
        \A s \in DOMAIN q : NormSqr(q[s].v[b[s]]) > 0}

\* the column collapsed on basis state b
CollapseBasis(col, b) ==
    Reduce([k |-> Log2(NormSqr(col.v[b])),
            v |-> [i \in DOMAIN col.v |-> IF i = b THEN col.v[i] ELSE COMPLEX_ZERO]])

\* the bit of qubit i in basis state b written to classical bit cbits[i], for
\* the qubits from qbit on, in ascending order
RECURSIVE WriteBits(_, _, _, _, _)
WriteBits(w, cbits, b, nr_bits, qbit) ==
    IF qbit >= nr_bits \/ qbit >= Len(cbits) THEN w
    ELSE WriteBits(SetBit(w, cbits[qbit + 1], Bit(b, nr_bits - qbit - 1)),
                   cbits, b, nr_bits, qbit + 1)

\* QuState::measure_all_into: the whole outcome of a shot is sampled in one pass
measure_all_into(cbits, nr_bits, q, c) ==
    {<<[s \in DOMAIN q |-> CollapseBasis(q[s], b[s])],
       [s \in DOMAIN c |-> WriteBits(c[s], cbits, b[s], nr_bits, 0)]>> :
        b \in BasisOutcomes(nr_bits, q)}

\* QuState::peek_all_into: the possible registers; the amplitudes stay
peek_all_into(cbits, nr_bits, q, c) ==
    {[s \in DOMAIN c |-> WriteBits(c[s], cbits, b[s], nr_bits, 0)] :
        b \in BasisOutcomes(nr_bits, q)}

\* QuState::reset: measure qbit, then X on the shots that gave 1
reset(qbit, nr_bits, q) ==
    {apply_conditional_gate([s \in DOMAIN q |-> o[s] = 1], "X", <<qbit>>, nr_bits,
                            [s \in DOMAIN q |-> Collapse(q[s], qbit, nr_bits, o[s])]) :
        o \in Outcomes(qbit, nr_bits, q)}

\* QuState::reset_all
reset_all(nr_bits, q) == [s \in DOMAIN q |-> ZeroColumn(nr_bits)]

---------------------------------------------------------------------------
\* PauliOp and StabilizerMatrix (stabilizer.rs)

\* PauliOp::from_bits
from_bits(bits) ==
    CASE bits % 4 = 0 -> "I"
      [] bits % 4 = 1 -> "Z"
      [] bits % 4 = 2 -> "X"
      [] bits % 4 = 3 -> "Y"

\* PauliOp::to_bits
to_bits(op) ==
    CASE op = "I" -> 0
      [] op = "Z" -> 1
      [] op = "X" -> 2
      [] op = "Y" -> 3

\* a ^ b on the two bits of a packed operation
Xor2(a, b) == ((a + b) % 2) + 2 * (((a \div 2) + (b \div 2)) % 2)

\* bit_indices: the word of xz and the bit in it where operation j of row i
\* starts (idx >> 6, idx & 0x3f)
bit_indices(m, i, j) ==
    LET idx == 2 * (i * m.nr_bits + j)
    IN  <<idx \div 64, idx % 64>>

\* (xz[byte_idx] >> bit_idx) & 0x03; the vectors are numbered from 1 here
get_bits(m, i, j) ==
    LET at == bit_indices(m, i, j)
    IN  (m.xz[at[1] + 1] \div 2^at[2]) % 4

get(m, i, j) == from_bits(get_bits(m, i, j))

\* xz[byte_idx] & (1 << bit_idx) != 0
get_z(m, i, j) ==
    LET at == bit_indices(m, i, j)
    IN  (m.xz[at[1] + 1] \div 2^at[2]) % 2 = 1

\* xz[byte_idx] & (2 << bit_idx) != 0
get_x(m, i, j) ==
    LET at == bit_indices(m, i, j)
    IN  (m.xz[at[1] + 1] \div 2^(at[2] + 1)) % 2 = 1

\* (xz[byte_idx] & !(0x03 << bit_idx)) | ((op & 0x03) << bit_idx)
set_bits(m, i, j, op) ==
    LET at == bit_indices(m, i, j)
        old == (m.xz[at[1] + 1] \div 2^at[2]) % 4
    IN  [m EXCEPT !.xz[at[1] + 1] = @ - old * 2^at[2] + (op % 4) * 2^at[2]]

set(m, i, j, op) == set_bits(m, i, j, to_bits(op))

\* phase[i >> 6] & (1 << (i & 0x3f)) != 0
get_phase(m, i) == (m.phase[(i \div 64) + 1] \div 2^(i % 64)) % 2 = 1

set_phase(m, i, p) ==
    LET old == (m.phase[(i \div 64) + 1] \div 2^(i % 64)) % 2
    IN  [m EXCEPT !.phase[(i \div 64) + 1] =
            @ - old * 2^(i % 64) + (IF p THEN 1 ELSE 0) * 2^(i % 64)]

xor_phase(m, i, p) == IF p THEN set_phase(m, i, ~get_phase(m, i)) ELSE m

\* the loop of StabilizerMatrix::new from row i on
RECURSIVE SetDiagonalFrom(_, _)
SetDiagonalFrom(m, i) ==
    IF i >= m.nr_bits THEN m ELSE SetDiagonalFrom(set(m, i, i, "Z"), i + 1)

\* StabilizerMatrix::new: row i is +Z on qubit i
StabilizerMatrixNew(nr_bits) ==
    SetDiagonalFrom([nr_bits |-> nr_bits,
                     xz |-> [w \in 1 .. (2 * nr_bits * nr_bits + 63) \div 64 |-> 0],
                     phase |-> [w \in 1 .. (nr_bits + 63) \div 64 |-> 0]], 0)

\* the loop of swap_rows from column j on
RECURSIVE SwapRowsFrom(_, _, _, _)
SwapRowsFrom(m, i0, i1, j) ==
    IF j >= m.nr_bits THEN m
    ELSE LET b == get_bits(m, i0, j)
             m1 == set_bits(m, i0, j, get_bits(m, i1, j))
         IN  SwapRowsFrom(set_bits(m1, i1, j, b), i0, i1, j + 1)

\* row i0 overwritten with row i1, from column j on
RECURSIVE OverwriteRowFrom(_, _, _, _)
OverwriteRowFrom(m, i0, i1, j) ==
    IF j >= m.nr_bits THEN m
    ELSE OverwriteRowFrom(set_bits(m, i0, j, get_bits(m, i1, j)), i0, i1, j + 1)

\* an exchange that does not save row i0 before it overwrites it: both rows
\* end as row i1
swap_rows_overwriting(m, i0, i1) ==
    set_phase(OverwriteRowFrom(m, i0, i1, 0), i0, get_phase(m, i1))

\* StabilizerMatrix::swap_rows
swap_rows(m, i0, i1) ==
    LET m1 == SwapRowsFrom(m, i0, i1, 0)
        p == get_phase(m1, i0)
    IN  set_phase(set_phase(m1, i0, get_phase(m1, i1)), i1, p)

\* PHASE_FACTORS of multiply_row, indexed by xz0 << 2 | xz1
PHASE_FACTORS == <<0, 0, 0, 0,  0, 0, 1, 3,  0, 1, 0, 3,  0, 1, 3, 0>>

\* the loop of multiply_row from column j on: the matrix and i_pow
RECURSIVE MultiplyRowFrom(_, _, _, _, _)
MultiplyRowFrom(m, i0, i1, j, i_pow) ==
    IF j >= m.nr_bits THEN [m |-> m, i_pow |-> i_pow]
    ELSE LET xz0 == get_bits(m, i0, j)
             xz1 == get_bits(m, i1, j)
             idx == xz0 * 4 + xz1
         IN  MultiplyRowFrom(set_bits(m, i0, j, Xor2(xz0, xz1)), i0, i1, j + 1,
                             (i_pow + PHASE_FACTORS[idx + 1]) % 4)

\* a multiplication of rows that leaves the phase bit of row i0 as it is
multiply_row_keeping_sign(m, i0, i1) ==
    LET r == MultiplyRowFrom(m, i0, i1, 0, 0)
    IN  [m |-> r.m, ok |-> r.i_pow \in {0, 2}, i_pow |-> r.i_pow]

\* StabilizerMatrix::multiply_row: row i0 becomes row i0 times row i1.  ok is
\* FALSE when the assertion i_pow == 0 || i_pow == 2 fails; i_pow is the
\* value the loop has accumulated.
multiply_row(m, i0, i1) ==
    LET r == MultiplyRowFrom(m, i0, i1, 0, 0)
    IN  [m |-> xor_phase(r.m, i0, r.i_pow = 2), ok |-> r.i_pow \in {0, 2}, i_pow |-> r.i_pow]

\* what a call multiply_row(i0, i1) on matrix m did, res being its result:
\* the value accumulated and the phase bit of row i0 before and after the call
MultiplyCall(m, i0, i1, res) ==
    [i0 |-> i0, i1 |-> i1, i_pow |-> res.i_pow,
     before |-> get_phase(m, i0), after |-> get_phase(res.m, i0)]

\* the rows from i on that hold an X (want_x) or a Z component in column j
PivotRows(m, i, j, want_x) ==
    {k \in i .. m.nr_bits - 1 : IF want_x THEN get_x(m, k, j) ELSE get_z(m, k, j)}

Min(S) == CHOOSE x \in S : \A y \in S : x <= y

\* the loop "for m in 0..n" of normalize, from row r on: every row but the
\* pivot row i with the component in column j is multiplied by row i; calls
\* lists the calls of multiply_row made so far
RECURSIVE EliminateFrom(_, _, _, _, _)
EliminateFrom(st, i, j, r, want_x) ==
    IF r >= st.m.nr_bits \/ ~st.ok THEN st
    ELSE IF r # i /\ (IF want_x THEN get_x(st.m, r, j) ELSE get_z(st.m, r, j))
         THEN LET res == multiply_row(st.m, r, i)
              IN  EliminateFrom([m |-> res.m, ok |-> res.ok,
                                 calls |-> Append(st.calls, MultiplyCall(st.m, r, i, res))],
                                i, j, r + 1, want_x)
         ELSE EliminateFrom(st, i, j, r + 1, want_x)

\* one pass of normalize over the columns from j on; st holds the matrix m,
\* the number i of pivot rows so far, and ok
RECURSIVE NormalizePass(_, _, _)
NormalizePass(st, j, want_x) ==
    IF j >= st.m.nr_bits \/ ~st.ok THEN st
    ELSE IF PivotRows(st.m, st.i, j, want_x) = {} THEN NormalizePass(st, j + 1, want_x)
         ELSE LET k == Min(PivotRows(st.m, st.i, j, want_x))
                  e == EliminateFrom([m |-> swap_rows(st.m, st.i, k), ok |-> TRUE,
                                      calls |-> st.calls],
                                     st.i, j, 0, want_x)
              IN  NormalizePass([m |-> e.m, i |-> st.i + 1, ok |-> e.ok, calls |-> e.calls],
                                j + 1, want_x)

\* a normalisation whose pass on the Z components starts again at row 0
normalize_restarting(m) ==
    LET x_pass == NormalizePass([m |-> m, i |-> 0, ok |-> TRUE, calls |-> << >>], 0, TRUE)
    IN  NormalizePass([x_pass EXCEPT !.i = 0], 0, FALSE)

\* StabilizerMatrix::normalize: the pass on the X components, then the pass on
\* the Z components with the rows that are left
normalize(m) ==
    LET x_pass == NormalizePass([m |-> m, i |-> 0, ok |-> TRUE, calls |-> << >>], 0, TRUE)
    IN  NormalizePass(x_pass, 0, FALSE)

\* Display: the sign and the operations of row i
RowString(m, i) ==
    <<IF get_phase(m, i) THEN "-" ELSE "+">> \o [j \in 1 .. m.nr_bits |-> get(m, i, j - 1)]

\* Display: one line per row
Display(m) == [i \in 1 .. m.nr_bits |-> RowString(m, i - 1)]

\* a gate by its name, and Kron (gates/kron.rs)
NamedGate(name) == [name |-> name]

Kron(g0, g1) == [name |-> "Kron", g0 |-> g0, g1 |-> g1]

\* Gate::nr_affected_bits; for Kron the sum of those of its parts
RECURSIVE GateBits(_)
GateBits(g) ==
    IF g.name = "Kron" THEN GateBits(g.g0) + GateBits(g.g1) ELSE nr_affected_bits(g.name)

\* the conjugation G P G^dagger of a Pauli operation P under a one-qubit
\* Clifford gate G: <<the operation, whether the sign flips>>
ConjugateOne(name, op) ==
    CASE op = "I" -> <<"I", FALSE>>
      [] op # "I" /\ name = "X" -> <<op, op \in {"Z", "Y"}>>
      [] op # "I" /\ name = "Y" -> <<op, op \in {"X", "Z"}>>
      [] op # "I" /\ name = "Z" -> <<op, op \in {"X", "Y"}>>
      [] op = "Z" /\ name = "H" -> <<"X", FALSE>>
      [] op = "X" /\ name = "H" -> <<"Z", FALSE>>
      [] op = "Y" /\ name = "H" -> <<"Y", TRUE>>
      [] op = "Z" /\ name = "S" -> <<"Z", FALSE>>
      [] op = "X" /\ name = "S" -> <<"Y", FALSE>>
      [] op = "Y" /\ name = "S" -> <<"X", TRUE>>
      [] op = "Z" /\ name = "Sdg" -> <<"Z", FALSE>>
      [] op = "X" /\ name = "Sdg" -> <<"Y", TRUE>>
      [] op = "Y" /\ name = "Sdg" -> <<"X", FALSE>>
      [] op = "X" /\ name = "V" -> <<"X", FALSE>>
      [] op = "Z" /\ name = "V" -> <<"Y", TRUE>>
      [] op = "Y" /\ name = "V" -> <<"Z", FALSE>>
      [] op = "X" /\ name = "Vdg" -> <<"X", FALSE>>
      [] op = "Z" /\ name = "Vdg" -> <<"Y", FALSE>>
      [] op = "Y" /\ name = "Vdg" -> <<"Z", TRUE>>

\* the conjugation of the operations <<control, target>> under CX: the X
\* component of the control is copied onto the target, the Z component of the
\* target onto the control; the sign flips for X(x)Z -> -Y(x)Y and Y(x)Y -> -X(x)Z
ConjugateCX(paulis) ==
    LET c == to_bits(paulis[1])
        t == to_bits(paulis[2])
        xc == c \div 2
        zc == c % 2
        xt == t \div 2
        zt == t % 2
    IN  [ops |-> <<from_bits(2 * xc + ((zc + zt) % 2)), from_bits(2 * ((xt + xc) % 2) + zt)>>,
         flip |-> xc = 1 /\ zt = 1 /\ xt = zc]

\* the gates with a Clifford conjugation rule
CliffordOne == {"X", "Y", "Z", "H", "S", "Sdg", "V", "Vdg"}

\* conjugate, with Kron flipping the sign when either part does
RECURSIVE conjugate_either_flip(_, _)
conjugate_either_flip(g, paulis) ==
    IF g.name = "Kron"
    THEN IF Len(paulis) # GateBits(g)
         THEN [status |-> "InvalidBitCount", ops |-> paulis, flip |-> FALSE]
         ELSE LET n0 == GateBits(g.g0)
                  c0 == conjugate_either_flip(g.g0, SubSeq(paulis, 1, n0))
                  c1 == conjugate_either_flip(g.g1, SubSeq(paulis, n0 + 1, Len(paulis)))
              IN  IF c0.status # "Ok" THEN [c0 EXCEPT !.ops = c0.ops \o SubSeq(paulis, n0 + 1, Len(paulis))]
                  ELSE IF c1.status # "Ok" THEN [c1 EXCEPT !.ops = c0.ops \o c1.ops]
                  ELSE [status |-> "Ok", ops |-> c0.ops \o c1.ops, flip |-> c0.flip \/ c1.flip]
    ELSE IF g.name \in CliffordOne
    THEN [status |-> "Ok", ops |-> <<ConjugateOne(g.name, paulis[1])[1]>>,
          flip |-> ConjugateOne(g.name, paulis[1])[2]]
    ELSE IF g.name = "CX"
    THEN [status |-> "Ok", ops |-> ConjugateCX(paulis).ops, flip |-> ConjugateCX(paulis).flip]
    ELSE [status |-> "NotAStabilizer", ops |-> paulis, flip |-> FALSE]

\* Gate::conjugate: the operations rewritten and the flip flag, or the failure
RECURSIVE conjugate(_, _)
conjugate(g, paulis) ==
    IF g.name = "Kron"
    THEN IF Len(paulis) # GateBits(g)
         THEN [status |-> "InvalidBitCount", ops |-> paulis, flip |-> FALSE]
         ELSE LET n0 == GateBits(g.g0)
                  c0 == conjugate(g.g0, SubSeq(paulis, 1, n0))
                  c1 == conjugate(g.g1, SubSeq(paulis, n0 + 1, Len(paulis)))
              IN  IF c0.status # "Ok" THEN [c0 EXCEPT !.ops = c0.ops \o SubSeq(paulis, n0 + 1, Len(paulis))]
                  ELSE IF c1.status # "Ok" THEN [c1 EXCEPT !.ops = c0.ops \o c1.ops]
                  ELSE [status |-> "Ok", ops |-> c0.ops \o c1.ops, flip |-> c0.flip # c1.flip]
    ELSE IF g.name \in CliffordOne
    THEN [status |-> "Ok", ops |-> <<ConjugateOne(g.name, paulis[1])[1]>>,
          flip |-> ConjugateOne(g.name, paulis[1])[2]]
    ELSE IF g.name = "CX"
    THEN [status |-> "Ok", ops |-> ConjugateCX(paulis).ops, flip |-> ConjugateCX(paulis).flip]
    ELSE [status |-> "NotAStabilizer", ops |-> paulis, flip |-> FALSE]

\* the operations of row i at the columns bits, in the order of bits
RowOps(m, i, bits) == [n \in 1 .. Len(bits) |-> get(m, i, bits[n])]

\* the loop of apply_gate that writes the operations back, from place n on
RECURSIVE SetOpsFrom(_, _, _, _, _)
SetOpsFrom(m, i, bits, new_ops, n) ==
    IF n > Len(bits) \/ n > Len(new_ops) THEN m
    ELSE SetOpsFrom(set(m, i, bits[n], new_ops[n]), i, bits, new_ops, n + 1)

\* no call has been made on the tableau since it was built
NotApplying(m) ==
    [call |-> "new", gate |-> None, bits |-> << >>, row |-> 0, status |-> "Ok", before |-> m,
     calls |-> << >>]

---------------------------------------------------------------------------
\* CircuitOp

GateOp(g, bits) == [kind |-> "Gate", gate |-> g, bits |-> bits]

ConditionalGateOp(control, target, g, bits) ==
    [kind |-> "ConditionalGate", control |-> control, target |-> target,
     gate |-> g, bits |-> bits]

MeasureOp(qbit, cbit, basis) ==
    [kind |-> "Measure", qbit |-> qbit, cbit |-> cbit, basis |-> basis]

MeasureAllOp(cbits, basis) == [kind |-> "MeasureAll", cbits |-> cbits, basis |-> basis]

PeekAllOp(cbits) == [kind |-> "PeekAll", cbits |-> cbits]

ResetOp(qbit) == [kind |-> "Reset", qbit |-> qbit]

ResetAllOp == [kind |-> "ResetAll"]

BarrierOp(bits) == [kind |-> "Barrier", bits |-> bits]

Basis == {"X", "Y", "Z"}

---------------------------------------------------------------------------
\* The circuits of the model.  The operation list is built by the add calls,
\* either freely from the operations of one family, up to MaxOps operations,
\* or along one of a few longer circuits: those of the repository's tests and
\* two on an entangled pair.

\* the qubit and classical-bit counts Circuit::new is called with
Shapes == {<<1, 2>>, <<2, 2>>}

\* the shot counts execute is called with
ShotCounts == {1, 2}

Qbits(nq) == 0 .. nq - 1

\* the classical-bit indices of measure_basis: an usize that is not compared
\* with nr_cbits, so also the first index beyond the register
CbitIndexes(nc) == 0 .. nc

\* the classical-bit lists of measure_all and peek_all: one bit per qubit
CbitLists(nq, nc) == [1 .. nq -> 0 .. nc - 1]

\* the control lists of conditional gates
ControlLists(nc) ==
    {<< >>} \cup {<<b>> : b \in 0 .. nc - 1}
            \cup {<<a, b>> : a, b \in 0 .. nc - 1}

\* the target words of conditional gates
Targets == 0 .. 3

GateNames == {"X", "Z", "H", "S", "CX"}

FamilyGates ==
    {GateOp("X", <<0>>), GateOp("H", <<1>>), GateOp("CX", <<1, 0>>), BarrierOp(<<0>>)}

FamilyConditional ==
    {MeasureAllOp(<<0, 1>>, "X"), ConditionalGateOp(<< >>, 0, "X", <<1>>),
     ConditionalGateOp(<<1>>, 1, "X", <<0>>), ConditionalGateOp(<<0, 1>>, 1, "X", <<1>>)}

FamilyMeasure ==
    {GateOp("X", <<0>>), MeasureOp(0, 1, "Z"), MeasureOp(1, 0, "X"), MeasureOp(1, 1, "Y")}

FamilyMeasureAll ==
    {GateOp("X", <<0>>), GateOp("H", <<1>>),
     MeasureAllOp(<<0, 1>>, "Z"), MeasureAllOp(<<1, 0>>, "Z")}

FamilyMeasureAllBasis ==
    {GateOp("H", <<0>>), GateOp("S", <<0>>),
     MeasureAllOp(<<0, 1>>, "X"), MeasureAllOp(<<1, 0>>, "Y")}

FamilyPeek ==
    {GateOp("X", <<0>>), GateOp("H", <<0>>), PeekAllOp(<<0, 1>>), PeekAllOp(<<1, 0>>)}

FamilyReset ==
    {GateOp("H", <<0>>), ResetOp(0), ResetAllOp, MeasureAllOp(<<0, 1>>, "Z")}

\* on one qubit and two classical bits
FamilyOneQubit ==
    {GateOp("X", <<0>>), GateOp("H", <<0>>), MeasureOp(0, 1, "Z"),
     MeasureAllOp(<<0>>, "Z"), PeekAllOp(<<1>>)}

\* the families of operations of circuits on nq qubits and nc classical bits
Families(nq, nc) ==
    IF nq = 2 /\ nc = 2
    THEN {FamilyGates, FamilyConditional, FamilyMeasure, FamilyMeasureAll,
          FamilyMeasureAllBasis, FamilyPeek, FamilyReset}
    ELSE {FamilyOneQubit}

\* test_execute
CircuitExecute ==
    <<GateOp("X", <<0>>), GateOp("X", <<1>>), GateOp("CX", <<0, 1>>),
      MeasureOp(0, 0, "Z"), MeasureOp(1, 1, "Z")>>

\* test_peek_all, on a register of two classical bits
CircuitPeek ==
    <<GateOp("H", <<0>>), PeekAllOp(<<0>>), GateOp("H", <<0>>), PeekAllOp(<<1>>)>>

\* test_reset
CircuitReset ==
    <<GateOp("H", <<0>>), GateOp("Z", <<0>>), GateOp("X", <<1>>), ResetOp(0),
      MeasureOp(0, 0, "Z"), MeasureOp(1, 1, "Z")>>

\* test_conditional
CircuitConditional ==
    <<ConditionalGateOp(<<0, 1>>, 1, "X", <<1>>), MeasureAllOp(<<0, 1>>, "Z")>>

\* test_open_qasm
CircuitQasm ==
    <<GateOp("X", <<0>>), MeasureAllOp(<<0, 1>>, "Z"),
      ConditionalGateOp(<<0, 1>>, 1, "X", <<0>>), ConditionalGateOp(<< >>, 1, "X", <<1>>)>>

\* an entangled pair, peeked and measured
CircuitBell ==
    <<GateOp("H", <<0>>), GateOp("CX", <<0, 1>>), PeekAllOp(<<1, 0>>),
      MeasureAllOp(<<1, 0>>, "Z")>>

\* one qubit of an entangled pair reset
CircuitBellReset ==
    <<GateOp("H", <<0>>), GateOp("CX", <<0, 1>>), ResetOp(0), MeasureAllOp(<<0, 1>>, "Z")>>

\* test_reset_all, on two qubits
CircuitResetAll ==
    <<GateOp("X", <<0>>), GateOp("H", <<1>>), ResetAllOp, MeasureAllOp(<<0, 1>>, "Z")>>

\* a barrier and a reset of all qubits after a measurement
CircuitBarrier ==
    <<GateOp("X", <<0>>), MeasureAllOp(<<1, 0>>, "Z"), BarrierOp(<<0>>), ResetAllOp>>

\* a measurement into a classical bit beyond the nr_cbits = 2 of the circuit:
\* measure_basis pushes the operation without looking at the index
CircuitMeasureBeyond == <<GateOp("X", <<0>>), MeasureOp(0, 2, "Z")>>

LongCircuits(nq, nc) ==
    IF nq = 1 THEN {CircuitPeek}
    ELSE {CircuitExecute, CircuitReset, CircuitConditional, CircuitQasm,
          CircuitBell, CircuitBellReset, CircuitResetAll, CircuitBarrier,
          CircuitMeasureBeyond}

IsPrefix(s, t) == Len(s) <= Len(t) /\ SubSeq(t, 1, Len(s)) = s

\* the list l is one the model builds
Buildable(l) ==
    \/ Len(l) <= MaxOps /\
           \E F \in Families(nr_qbits, nr_cbits) : \A i \in 1 .. Len(l) : l[i] \in F
    \/ \E t \in LongCircuits(nr_qbits, nr_cbits) : IsPrefix(l, t)

---------------------------------------------------------------------------
\* Circuit

\* the result of a call: its name, its arguments, "Ok" or the failure, and
\* the value returned
Ret(call, arg, status, val) == [call |-> call, arg |-> arg, status |-> status, val |-> val]

NoVal == [i \in {} |-> 0]

\* what a call finds: no state ("none"), the state execute starts the replay
\* from ("fresh"), or a state that a replay has changed ("used"); and for how
\* many shots
Found ==
    IF IsNone(q_state) \/ IsNone(c_state) THEN [state |-> "none", shots |-> 0]
    ELSE [state |-> IF /\ Unwrap(q_state) = QuStateNew(nr_qbits, Len(Unwrap(q_state)))
                       /\ \A s \in DOMAIN Unwrap(c_state) : Unwrap(c_state)[s] = 0
                    THEN "fresh" ELSE "used",
          shots |-> Len(Unwrap(c_state))]

\* the last event.  A call ("new", "add", "execute", "reexecute", "read", or
\* "panic" for a call that panicked) is recorded with what it found; "op", one
\* turn of the loop of reexecute, with the operation and whether it cleared a
\* bit of the register that was set.  run lists the operations replayed so far
\* by the current (or last) run.
HistCall(ev, run) ==
    [ev |-> ev, op |-> None, found |-> Found, cleared |-> FALSE, run |-> run]

HistOp(op, run, cleared) ==
    [ev |-> "op", op |-> Some(op), found |-> hist.found, cleared |-> cleared, run |-> run]

\* Circuit::new
Init ==
    /\ \E shape \in Shapes : nr_qbits = shape[1] /\ nr_cbits = shape[2]
    /\ q_state = None
    /\ c_state = None
    /\ ops = << >>
    /\ pc = 0
    /\ ret = Ret("new", << >>, "Ok", NoVal)
    /\ hist = [ev |-> "new", op |-> None, found |-> [state |-> "none", shots |-> 0],
               cleared |-> FALSE, run |-> << >>]
    /\ stabilizer = StabilizerMatrixNew(nr_qbits)
    /\ applying = NotApplying(stabilizer)

\* ops.push(op)
Push(op, call) ==
    /\ pc = 0
    /\ IsNone(q_state)
    /\ Buildable(Append(ops, op))
    /\ ops' = Append(ops, op)
    /\ ret' = Ret(call, << >>, "Ok", NoVal)
    /\ hist' = HistCall("add", hist.run)
    /\ UNCHANGED <<nr_qbits, nr_cbits, q_state, c_state, pc, stabilizer, applying>>

\* Circuit::add_gate
add_gate ==
    \E g \in GateNames :
        \E bits \in [1 .. nr_affected_bits(g) -> Qbits(nr_qbits)] :
            Push(GateOp(g, bits), "add_gate")

\* Circuit::add_conditional_gate
add_conditional_gate ==
    \E control \in ControlLists(nr_cbits), target \in Targets, bit \in Qbits(nr_qbits) :
        Push(ConditionalGateOp(control, target, "X", <<bit>>), "add_conditional_gate")

\* Circuit::measure_basis
measure_basis ==
    \E qbit \in Qbits(nr_qbits), cbit \in CbitIndexes(nr_cbits), basis \in Basis :
        Push(MeasureOp(qbit, cbit, basis), "measure_basis")

\* Circuit::measure_all_basis
measure_all_basis ==
    \E cbits \in CbitLists(nr_qbits, nr_cbits), basis \in Basis :
        Push(MeasureAllOp(cbits, basis), "measure_all_basis")

\* Circuit::peek_all
peek_all ==
    \E cbits \in CbitLists(nr_qbits, nr_cbits) : Push(PeekAllOp(cbits), "peek_all")

\* Circuit::reset
add_reset == \E qbit \in Qbits(nr_qbits) : Push(ResetOp(qbit), "reset")

\* Circuit::reset_all
add_reset_all == pc = 0 /\ Push(ResetAllOp, "reset_all")

\* Circuit::barrier
barrier == pc = 0 /\ Push(BarrierOp(<<0>>), "barrier")

---------------------------------------------------------------------------
\* Circuit::execute and Circuit::reexecute

\* the register execute() allocates
ZeroRegister(nr_shots) == [s \in 1 .. nr_shots |-> 0]

\* the control bits of word sb read with the first index of control as the
\* most significant bit
RECURSIVE ControlWordMsbFirst(_, _, _)
ControlWordMsbFirst(control, sb, n) ==
    IF n = 0 THEN 0
    ELSE ControlWordMsbFirst(control, sb, n - 1) * 2 + Bit(sb, control[n])

\* the word reconstructed from the control bits of word sb, over the first n
\* entries of control: *db |= ((sb >> isrc) & 1) << idst
RECURSIVE ControlWord(_, _, _)
ControlWord(control, sb, n) ==
    IF n = 0 THEN 0
    ELSE Or(ControlWord(control, sb, n - 1), Bit(sb, control[n]) * Pow2(n - 1))

\* apply_gate: the shots whose reconstructed word equals target
ConditionalMask(control, target, c) ==
    [s \in DOMAIN c |-> ControlWord(control, c[s], Len(control)) = target]

\* a basis change that applies H before S-dagger
MeasureBasisChangeHFirst(basis, qbit, nr_bits, q) ==
    CASE basis = "X" -> apply_gate("H", <<qbit>>, nr_bits, q)
      [] basis = "Y" -> apply_gate("Sdg", <<qbit>>, nr_bits,
                                   apply_gate("H", <<qbit>>, nr_bits, q))
      [] OTHER -> q

\* the basis change before measuring one qubit
MeasureBasisChange(basis, qbit, nr_bits, q) ==
    CASE basis = "X" -> apply_gate("H", <<qbit>>, nr_bits, q)
      [] basis = "Y" -> apply_gate("H", <<qbit>>, nr_bits,
                                   apply_gate("Sdg", <<qbit>>, nr_bits, q))
      [] OTHER -> q

\* the basis change before measuring all qubits
MeasureAllBasisChange(basis, nr_bits, q) ==
    CASE basis = "X" -> apply_unary_gate_all("H", nr_bits, q)
      [] basis = "Y" -> apply_unary_gate_all("H", nr_bits,
                                             apply_unary_gate_all("Sdg", nr_bits, q))
      [] OTHER -> q

\* the arms of the match in reexecute: the possible <<quantum state, register>>
\* results of one operation on quantum state q and register c

RunGate(op, q, c) == {<<apply_gate(op.gate, op.bits, nr_qbits, q), c>>}

RunConditionalGate(op, q, c) ==
    {<<apply_conditional_gate(ConditionalMask(op.control, op.target, c),
                              op.gate, op.bits, nr_qbits, q), c>>}

\* a measurement that writes its outcome into a zeroed register
RunMeasureZeroed(op, q, c) ==
    measure_into(op.qbit, op.cbit, nr_qbits,
                 MeasureBasisChange(op.basis, op.qbit, nr_qbits, q), [s \in DOMAIN c |-> 0])

RunMeasure(op, q, c) ==
    measure_into(op.qbit, op.cbit, nr_qbits,
                 MeasureBasisChange(op.basis, op.qbit, nr_qbits, q), c)

\* a measurement of all qubits that takes the classical bits in reverse order
RunMeasureAllReversed(op, q, c) ==
    measure_all_into([i \in DOMAIN op.cbits |-> op.cbits[Len(op.cbits) + 1 - i]], nr_qbits,
                     MeasureAllBasisChange(op.basis, nr_qbits, q), c)

RunMeasureAll(op, q, c) ==
    measure_all_into(op.cbits, nr_qbits, MeasureAllBasisChange(op.basis, nr_qbits, q), c)

\* a peek that collapses the state as a measurement does
RunPeekAllCollapsing(op, q, c) == measure_all_into(op.cbits, nr_qbits, q, c)

RunPeekAll(op, q, c) == {<<q, c2>> : c2 \in peek_all_into(op.cbits, nr_qbits, q, c)}

\* a reset that measures the qubit and does not flip it back
RunResetMeasureOnly(op, q, c) == {<<r[1], c>> : r \in measure_into(op.qbit, 0, nr_qbits, q, c)}

RunReset(op, q, c) == {<<q2, c>> : q2 \in reset(op.qbit, nr_qbits, q)}

\* a reset of all qubits that leaves the quantum state as it is
RunResetAllKept(op, q, c) == {<<q, c>>}

RunResetAll(op, q, c) == {<<reset_all(nr_qbits, q), c>>}

\* a barrier that clears the register
RunBarrierClearing(op, q, c) == {<<q, [s \in DOMAIN c |-> 0]>>}

RunBarrier(op, q, c) == {<<q, c>>}

RunOp(op, q, c) ==
    CASE op.kind = "Gate" -> RunGate(op, q, c)
      [] op.kind = "ConditionalGate" -> RunConditionalGate(op, q, c)
      [] op.kind = "Measure" -> RunMeasure(op, q, c)
      [] op.kind = "MeasureAll" -> RunMeasureAll(op, q, c)
      [] op.kind = "PeekAll" -> RunPeekAll(op, q, c)
      [] op.kind = "Reset" -> RunReset(op, q, c)
      [] op.kind = "ResetAll" -> RunResetAll(op, q, c)
      [] op.kind = "Barrier" -> RunBarrier(op, q, c)

\* where the loop over the operations starts
FirstPc == IF ops = << >> THEN 0 ELSE 1

\* the position after ops[pc]; 0 when the loop is over
NextPc == IF pc < Len(ops) THEN pc + 1 ELSE 0

\* the quantum state and the register execute(nr_shots) starts the replay from
ExecuteQState(nr_shots) == Some(QuStateNew(nr_qbits, nr_shots))

\* a register that is allocated only when there is none
KeptRegister(nr_shots) ==
    IF IsNone(c_state) THEN Some(ZeroRegister(nr_shots)) ELSE c_state

ExecuteCState(nr_shots) == Some(ZeroRegister(nr_shots))

\* Circuit::execute, up to the loop of reexecute
execute ==
    \E nr_shots \in ShotCounts :
        /\ pc = 0
        /\ q_state' = ExecuteQState(nr_shots)
        /\ c_state' = ExecuteCState(nr_shots)
        /\ pc' = FirstPc
        /\ ret' = Ret("execute", <<nr_shots>>, "Ok", NoVal)
        /\ hist' = HistCall("execute", << >>)
        /\ UNCHANGED <<nr_qbits, nr_cbits, ops, stabilizer, applying>>

\* a check that never finds the state missing
NeverNotExecuted == FALSE

\* reexecute panics ("Not yet executed") when a state is missing
NotExecuted == IsNone(q_state) \/ IsNone(c_state)

\* a reexecute that clears the state before the replay
reexecute_cleared ==
    /\ pc = 0
    /\ IF NotExecuted
       THEN /\ ret' = Ret("reexecute", << >>, "NotExecuted", NoVal)
            /\ hist' = HistCall("panic", hist.run)
            /\ UNCHANGED <<pc, q_state, c_state>>
       ELSE /\ ret' = Ret("reexecute", << >>, "Ok", NoVal)
            /\ hist' = HistCall("reexecute", << >>)
            /\ pc' = FirstPc
            /\ q_state' = ExecuteQState(Len(Unwrap(c_state)))
            /\ c_state' = ExecuteCState(Len(Unwrap(c_state)))
    /\ UNCHANGED <<nr_qbits, nr_cbits, ops, stabilizer, applying>>

\* Circuit::reexecute, up to its loop
reexecute ==
    /\ pc = 0
    /\ IF NotExecuted
       THEN /\ ret' = Ret("reexecute", << >>, "NotExecuted", NoVal)
            /\ hist' = HistCall("panic", hist.run)
            /\ UNCHANGED pc
       ELSE /\ ret' = Ret("reexecute", << >>, "Ok", NoVal)
            /\ hist' = HistCall("reexecute", << >>)
            /\ pc' = FirstPc
    /\ UNCHANGED <<nr_qbits, nr_cbits, ops, q_state, c_state, stabilizer, applying>>

\* some bit that is set in a word of register c is clear in c2
ClearedBit(c, c2) ==
    \E s \in DOMAIN c : \E k \in 0 .. nr_cbits - 1 : Bit(c[s], k) = 1 /\ Bit(c2[s], k) = 0

\* one turn of the loop of reexecute, on an operation of the given kind
Replay(kind) ==
    /\ ops[pc].kind = kind
    /\ \E r \in RunOp(ops[pc], Unwrap(q_state), Unwrap(c_state)) :
        /\ q_state' = Some(r[1])
        /\ c_state' = Some(r[2])
        /\ hist' = HistOp(ops[pc], Append(hist.run, ops[pc]),
                          ClearedBit(Unwrap(c_state), r[2]))
    /\ pc' = NextPc
    /\ UNCHANGED <<nr_qbits, nr_cbits, ops, ret, stabilizer, applying>>

ReplayGate == pc > 0 /\ Replay("Gate")

ReplayConditionalGate == pc > 0 /\ Replay("ConditionalGate")

ReplayMeasure == pc > 0 /\ Replay("Measure")

ReplayMeasureAll == pc > 0 /\ Replay("MeasureAll")

ReplayPeekAll == pc > 0 /\ Replay("PeekAll")

ReplayReset == pc > 0 /\ Replay("Reset")

ReplayResetAll == pc > 0 /\ Replay("ResetAll")

ReplayBarrier == pc > 0 /\ Replay("Barrier")

---------------------------------------------------------------------------
\* Histograms

\* the number of shots whose word is key
Count(c, key) == Cardinality({s \in DOMAIN c : c[s] = key})

\* the map of Circuit::histogram after the loop has seen the words c[1 .. n]:
\* res.entry(key).or_insert(0), then *count += 1
RECURSIVE HistogramMapUpTo(_, _)
HistogramMapUpTo(c, n) ==
    IF n = 0 THEN [key \in {} |-> 0]
    ELSE LET res == HistogramMapUpTo(c, n - 1)
             key == c[n]
         IN  IF key \in DOMAIN res THEN [res EXCEPT ![key] = @ + 1]
             ELSE [k \in DOMAIN res \cup {key} |-> IF k = key THEN 1 ELSE res[k]]

\* Circuit::histogram: a count for every word that occurs
HistogramMap(c) == HistogramMapUpTo(c, Len(c))

\* Circuit::histogram_vec: indexing res[key] beyond 2^nr_cbits panics
HistogramVecFits(c) == \A s \in DOMAIN c : c[s] < Pow2(nr_cbits)

\* the vector of Circuit::histogram_vec after the loop has seen the words
\* c[1 .. n]: vec![0; 1 << nr_cbits], then res[key as usize] += 1
RECURSIVE HistogramVecUpTo(_, _)
HistogramVecUpTo(c, n) ==
    IF n = 0 THEN [key \in 0 .. Pow2(nr_cbits) - 1 |-> 0]
    ELSE [HistogramVecUpTo(c, n - 1) EXCEPT ![c[n]] = @ + 1]

\* the word of width bits with the bits of key in reverse order
RECURSIVE ReverseBits(_, _)
ReverseBits(key, width) ==
    IF width = 0 THEN 0
    ELSE (key % 2) * Pow2(width - 1) + ReverseBits(key \div 2, width - 1)

\* a vector indexed with classical bit 0 as the most significant bit
HistogramVecMsbFirst(c) ==
    [key \in 0 .. Pow2(nr_cbits) - 1 |->
        HistogramVecUpTo(c, Len(c))[ReverseBits(key, nr_cbits)]]

HistogramVec(c) == HistogramVecUpTo(c, Len(c))

\* format!("{:0width$b}", key, width): the binary digits of key, most
\* significant first, padded with zeros to width digits
RECURSIVE BinaryString(_, _)
BinaryString(key, width) ==
    IF key < 2 /\ width <= 1 THEN <<key>>
    ELSE Append(BinaryString(key \div 2, width - 1), key % 2)

\* Circuit::histogram_string
HistogramString(c) ==
    [skey \in {BinaryString(c[s], nr_cbits) : s \in DOMAIN c} |->
        Cardinality({s \in DOMAIN c : BinaryString(c[s], nr_cbits) = skey})]

\* a call that reads the register: it panics when there is none
ReadRegister(call, val) ==
    /\ pc = 0
    /\ ret' = IF IsNone(c_state) THEN Ret(call, << >>, "NotExecuted", NoVal)
              ELSE Ret(call, << >>, "Ok", val)
    /\ hist' = HistCall(IF IsNone(c_state) THEN "panic" ELSE "read", hist.run)
    /\ UNCHANGED <<nr_qbits, nr_cbits, ops, q_state, c_state, pc, stabilizer, applying>>

histogram == pc = 0 /\ ReadRegister("histogram", HistogramMap(Unwrap(c_state)))

\* Circuit::histogram_vec: it panics when there is no register, and when a
\* word indexes the vector of length 2^nr_cbits beyond its end
histogram_vec ==
    /\ pc = 0
    /\ ret' = IF IsNone(c_state) THEN Ret("histogram_vec", << >>, "NotExecuted", NoVal)
              ELSE IF ~HistogramVecFits(Unwrap(c_state))
                   THEN Ret("histogram_vec", << >>, "IndexOutOfBounds", NoVal)
                   ELSE Ret("histogram_vec", << >>, "Ok", HistogramVec(Unwrap(c_state)))
    /\ hist' = HistCall(IF IsNone(c_state) \/ ~HistogramVecFits(Unwrap(c_state))
                        THEN "panic" ELSE "read", hist.run)
    /\ UNCHANGED <<nr_qbits, nr_cbits, ops, q_state, c_state, pc, stabilizer, applying>>

histogram_string == pc = 0 /\ ReadRegister("histogram_string", HistogramString(Unwrap(c_state)))

---------------------------------------------------------------------------
\* StabilizerMatrix::apply_gate, row by row

\* the sizes of the tableaux
StabilizerSizes == {2, 3}

\* the gates applied to a tableau: Clifford gates, the non-Clifford T, and
\* products as in test_conjugate of gates/kron.rs, one of them with T
StabilizerGates ==
    {NamedGate("H"), NamedGate("S"), NamedGate("X"), NamedGate("CX"), NamedGate("T"),
     Kron(NamedGate("X"), NamedGate("H")), Kron(NamedGate("H"), NamedGate("T"))}

\* the lists of n distinct qubits of a tableau of nr_bits qubits
BitLists(n, nr_bits) ==
    {bits \in [1 .. n -> 0 .. nr_bits - 1] : \A a, b \in 1 .. n : a # b => bits[a] # bits[b]}

\* the circuit engine is left alone
CircuitUnchanged == UNCHANGED <<nr_qbits, nr_cbits, q_state, c_state, ops, pc, ret, hist>>

\* StabilizerMatrix::apply_gate is called: the loop starts at row 0
StabilizerApplyGate ==
    \E g \in StabilizerGates :
        \E bits \in BitLists(GateBits(g), stabilizer.nr_bits) :
            /\ applying.status # "Running"
            /\ applying' = [call |-> "apply_gate", gate |-> Some(g), bits |-> bits, row |-> 0,
                            status |-> "Running", before |-> stabilizer, calls |-> << >>]
            /\ UNCHANGED stabilizer
            /\ CircuitUnchanged

\* a row whose operations are written back without the flip of its phase
ConjugatedRowUnsigned(m, i, bits, c) == SetOpsFrom(m, i, bits, c.ops, 1)

\* a row conjugated, its operations written back and its phase flipped
ConjugatedRow(m, i, bits, c) == xor_phase(SetOpsFrom(m, i, bits, c.ops, 1), i, c.flip)

\* a failing row that keeps the operations conjugate had rewritten
FailedRowWritten(m, i, bits, c) == SetOpsFrom(m, i, bits, c.ops, 1)

\* what apply_gate leaves of the matrix when conjugate fails at row i: the
\* operations conjugate had rewritten are dropped with the vector ops
FailedRow(m, i, bits, c) == m

\* one turn of the loop of apply_gate: row i is conjugated; when conjugate
\* fails the call returns the error at once
ConjugateRow ==
    /\ applying.status = "Running"
    /\ applying.row < stabilizer.nr_bits
    /\ LET i == applying.row
           bits == applying.bits
           c == conjugate(Unwrap(applying.gate), RowOps(stabilizer, i, bits))
       IN  IF c.status = "Ok"
           THEN /\ stabilizer' = ConjugatedRow(stabilizer, i, bits, c)
                /\ applying' = [applying EXCEPT !.row = i + 1]
           ELSE /\ stabilizer' = FailedRow(stabilizer, i, bits, c)
                /\ applying' = [applying EXCEPT !.status = c.status]
    /\ CircuitUnchanged

\* the end of apply_gate: all rows are rewritten, the matrix is normalised
Normalize ==
    /\ applying.status = "Running"
    /\ applying.row = stabilizer.nr_bits
    /\ LET res == normalize(stabilizer)
       IN  /\ stabilizer' = res.m
           /\ applying' = [applying EXCEPT
                              !.status = IF res.ok THEN "Ok" ELSE "AssertionFailed",
                              !.calls = res.calls]
    /\ CircuitUnchanged

InitStabilizer ==
    /\ nr_qbits = 1
    /\ nr_cbits = 1
    /\ q_state = None
    /\ c_state = None
    /\ ops = << >>
    /\ pc = 0
    /\ ret = Ret("new", << >>, "Ok", NoVal)
    /\ hist = [ev |-> "new", op |-> None, found |-> [state |-> "none", shots |-> 0],
               cleared |-> FALSE, run |-> << >>]
    /\ \E n \in StabilizerSizes : stabilizer = StabilizerMatrixNew(n)
    /\ applying = NotApplying(stabilizer)

NextStabilizer ==
    \/ StabilizerApplyGate
    \/ ConjugateRow
    \/ Normalize

SpecStabilizer == InitStabilizer /\ [][NextStabilizer]_vars

---------------------------------------------------------------------------
\* StabilizerMatrix::normalize on any tableau of commuting, independent rows

\* the sizes of the tableaux normalize is applied to
NormalizeSizes == {2, 3}

\* the rows i0 and i1 of m commute: they hold different operations, neither
\* of them I, in an even number of columns
RowsCommute(m, i0, i1) ==
    Cardinality({j \in 0 .. m.nr_bits - 1 :
                    /\ get(m, i0, j) # "I"
                    /\ get(m, i1, j) # "I"
                    /\ get(m, i0, j) # get(m, i1, j)}) % 2 = 0

\* the operations of rows R of m multiplied column by column, from row i on
RECURSIVE RowsXor(_, _, _)
RowsXor(m, R, i) ==
    IF i >= m.nr_bits THEN [j \in 0 .. m.nr_bits - 1 |-> 0]
    ELSE IF i \in R
         THEN [j \in 0 .. m.nr_bits - 1 |-> Xor2(get_bits(m, i, j), RowsXor(m, R, i + 1)[j])]
         ELSE RowsXor(m, R, i + 1)

\* no product of a non-empty set of rows of m is the identity string
RowsIndependent(m) ==
    \A R \in SUBSET (0 .. m.nr_bits - 1) :
        R # {} => RowsXor(m, R, 0) # [j \in 0 .. m.nr_bits - 1 |-> 0]

\* the tableau of nr_bits qubits whose row i holds the packed operations
\* rows[i], none of them the identity string, with the phase bits p
Tableau(nr_bits, rows, p) ==
    [nr_bits |-> nr_bits,
     xz |-> <<ISum([i \in 0 .. nr_bits - 1 |-> rows[i] * 4^(i * nr_bits)], 0, nr_bits - 1)>>,
     phase |-> <<p>>]

\* the phase bits the rows of a tableau of nr_bits qubits start with: none,
\* row 0 only, every row but row 0, and every row
TableauPhases(nr_bits) == {0, 1, 2^nr_bits - 2, 2^nr_bits - 1}

\* a tableau a stabilizer state can have
ValidTableau(m) ==
    /\ \A i0, i1 \in 0 .. m.nr_bits - 1 : RowsCommute(m, i0, i1)
    /\ RowsIndependent(m)

\* normalize() is called on the tableau
NormalizeTableau ==
    /\ applying.status = "Ok"
    /\ LET res == normalize(stabilizer)
       IN  /\ stabilizer' = res.m
           /\ applying' = [call |-> "normalize", gate |-> None, bits |-> << >>, row |-> 0,
                           status |-> IF res.ok THEN "Ok" ELSE "AssertionFailed",
                           before |-> stabilizer, calls |-> res.calls]
    /\ CircuitUnchanged

InitNormalize ==
    /\ nr_qbits = 1
    /\ nr_cbits = 1
    /\ q_state = None
    /\ c_state = None
    /\ ops = << >>
    /\ pc = 0
    /\ ret = Ret("new", << >>, "Ok", NoVal)
    /\ hist = [ev |-> "new", op |-> None, found |-> [state |-> "none", shots |-> 0],
               cleared |-> FALSE, run |-> << >>]
    /\ \E n \in NormalizeSizes :
        \E rows \in [0 .. n - 1 -> 1 .. 4^n - 1] :
            /\ ValidTableau(Tableau(n, rows, 0))
            /\ \E p \in TableauPhases(n) : stabilizer = Tableau(n, rows, p)
    /\ applying = NotApplying(stabilizer)

NextNormalize == NormalizeTableau

SpecNormalize == InitNormalize /\ [][NextNormalize]_vars

---------------------------------------------------------------------------
\* StabilizerMatrix::multiply_row on any two rows of any tableau

\* the sizes of the tableaux whose rows are multiplied
MultiplySizes == {2}

\* multiply_row(i0, i1) is called on the tableau; when the assertion fails
\* the operations of row i0 are already rewritten
MultiplyRows ==
    /\ applying.call = "new"
    /\ \E i0, i1 \in 0 .. stabilizer.nr_bits - 1 :
        /\ i0 # i1
        /\ LET res == multiply_row(stabilizer, i0, i1)
           IN  /\ stabilizer' = res.m
               /\ applying' = [call |-> "multiply_row", gate |-> None, bits |-> <<i0, i1>>,
                               row |-> i0,
                               status |-> IF res.ok THEN "Ok" ELSE "AssertionFailed",
                               before |-> stabilizer,
                               calls |-> <<MultiplyCall(stabilizer, i0, i1, res)>>]
    /\ CircuitUnchanged

\* every tableau of Pauli strings, with every choice of the phase bits
InitMultiply ==
    /\ nr_qbits = 1
    /\ nr_cbits = 1
    /\ q_state = None
    /\ c_state = None
    /\ ops = << >>
    /\ pc = 0
    /\ ret = Ret("new", << >>, "Ok", NoVal)
    /\ hist = [ev |-> "new", op |-> None, found |-> [state |-> "none", shots |-> 0],
               cleared |-> FALSE, run |-> << >>]
    /\ \E n \in MultiplySizes :
        \E rows \in [0 .. n - 1 -> 0 .. 4^n - 1] :
            \E p \in 0 .. 2^n - 1 : stabilizer = Tableau(n, rows, p)
    /\ applying = NotApplying(stabilizer)

NextMultiply == MultiplyRows

SpecMultiply == InitMultiply /\ [][NextMultiply]_vars

---------------------------------------------------------------------------
\* Circuit::open_qasm.  The program is a list of statements; a statement is
\* its keyword, the condition it is guarded with (None when there is none)
\* and the names of its arguments, a name being a register and an index (None
\* for the whole register).

\* the list l with x put before its first element that is not smaller
RECURSIVE InsertSorted(_, _)
InsertSorted(l, x) ==
    IF l = << >> THEN <<x>>
    ELSE IF x <= Head(l) THEN <<x>> \o l
    ELSE <<Head(l)>> \o InsertSorted(Tail(l), x)

\* scontrol.sort()
RECURSIVE Sort(_)
Sort(l) == IF l = << >> THEN << >> ELSE InsertSorted(Sort(Tail(l)), Head(l))

\* a check of the register that compares the control list as it is given
is_full_register_in_order(nc, control) ==
    LET n == Len(control)
    IN  IF n # nc THEN FALSE
        ELSE \A i \in 0 .. n - 1 : control[i + 1] = i

\* Circuit::is_full_register: the control list is as long as the register
\* and, sorted, it is 0, 1, ..., n - 1
is_full_register(nc, control) ==
    LET n == Len(control)
        scontrol == Sort(control)
    IN  IF n # nc THEN FALSE
        ELSE \A i \in 0 .. n - 1 : scontrol[i + 1] = i

COMPLETE_REGISTER_MSG ==
    "OpenQasm can only perform conditional operations based on a complete classical register"

PEEK_MSG ==
    "Peeking into the quantum state is not a physical operation, and is not supported in OpenQasm"

\* Circuit::check_open_qasm_condition_bits
check_open_qasm_condition_bits(nc, control) ==
    IF ~is_full_register(nc, control) THEN [status |-> "Err", val |-> COMPLETE_REGISTER_MSG]
    ELSE [status |-> "Ok", val |-> NoVal]

BitName(reg, i) == [reg |-> reg, idx |-> Some(i)]

RegisterName(reg) == [reg |-> reg, idx |-> None]

\* qbit_names and cbit_names: reg[0], ..., reg[n - 1]
BitNames(reg, n) == [i \in 0 .. n - 1 |-> BitName(reg, i)]

Statement(cond, stmt, args) == [cond |-> cond, stmt |-> stmt, args |-> args]

\* the names of gates in OpenQasm
QasmGateName(g) ==
    CASE g = "X" -> "x"
      [] g = "Z" -> "z"
      [] g = "H" -> "h"
      [] g = "S" -> "s"
      [] g = "Sdg" -> "sdg"
      [] g = "CX" -> "cx"

\* gate.open_qasm(bit_names, bits)
gate_open_qasm(g, bit_names, bits) ==
    Statement(None, QasmGateName(g), [k \in 1 .. Len(bits) |-> bit_names[bits[k]]])

\* gate.conditional_open_qasm(condition, bit_names, bits): if (b == word) gate
gate_conditional_open_qasm(g, word, bit_names, bits) ==
    [gate_open_qasm(g, bit_names, bits) EXCEPT !.cond = Some(word)]

\* starget: bit control[k] of it is bit k of target, the bits being or-ed
\* into an u64
ConditionWord(control, target) ==
    ISum([j \in 0 .. 63 |->
              IF \E k \in 0 .. Len(control) - 1 :
                     control[k + 1] = j /\ Bit(target, k) = 1
              THEN Pow2(j) ELSE 0], 0, 63)

\* bits is the whole register in its order
WholeInOrder(bits, n) == Len(bits) = n /\ \A i \in 0 .. n - 1 : bits[i + 1] = i

\* the gates a measurement in basis is preceded with, on the bits named
BasisStatements(basis, bit_names, bit) ==
    CASE basis = "X" -> <<gate_open_qasm("H", bit_names, <<bit>>)>>
      [] basis = "Y" -> <<gate_open_qasm("Sdg", bit_names, <<bit>>),
                          gate_open_qasm("H", bit_names, <<bit>>)>>
      [] OTHER -> << >>

\* one turn of the loop over the operations: the statements of op, or the
\* failure the export ends with
OpenQasmOp(nq, nc, op) ==
    LET qbit_names == BitNames("q", nq)
        cbit_names == BitNames("b", nc)
        Ok(stmts) == [status |-> "Ok", val |-> stmts]
    IN  CASE op.kind = "Gate" -> Ok(<<gate_open_qasm(op.gate, qbit_names, op.bits)>>)
          [] op.kind = "ConditionalGate" /\ op.control = << >> ->
                Ok(<<gate_open_qasm(op.gate, qbit_names, op.bits)>>)
          [] op.kind = "ConditionalGate" /\ op.control # << >> ->
                IF check_open_qasm_condition_bits(nc, op.control).status # "Ok"
                THEN check_open_qasm_condition_bits(nc, op.control)
                ELSE Ok(<<gate_conditional_open_qasm(op.gate,
                              ConditionWord(op.control, op.target), qbit_names, op.bits)>>)
          [] op.kind = "Measure" ->
                IF op.qbit >= nq \/ op.cbit >= nc
                THEN [status |-> "IndexOutOfBounds", val |-> NoVal]
                ELSE Ok(BasisStatements(op.basis, qbit_names, op.qbit)
                        \o <<Statement(None, "measure",
                                       <<qbit_names[op.qbit], cbit_names[op.cbit]>>)>>)
          [] op.kind = "MeasureAll" ->
                IF WholeInOrder(op.cbits, nc)
                THEN Ok(BasisStatements(op.basis, <<RegisterName("q")>>, 1)
                        \o <<Statement(None, "measure",
                                       <<RegisterName("q"), RegisterName("b")>>)>>)
                ELSE IF \E k \in 1 .. Len(op.cbits) : k - 1 >= nq \/ op.cbits[k] >= nc
                THEN [status |-> "IndexOutOfBounds", val |-> NoVal]
                ELSE Ok(BasisStatements(op.basis, <<RegisterName("q")>>, 1)
                        \o [k \in 1 .. Len(op.cbits) |->
                                Statement(None, "measure",
                                          <<qbit_names[k - 1], cbit_names[op.cbits[k]]>>)])
          [] op.kind = "PeekAll" -> [status |-> "Err", val |-> PEEK_MSG]
          [] op.kind = "Reset" -> Ok(<<Statement(None, "reset", <<qbit_names[op.qbit]>>)>>)
          [] op.kind = "ResetAll" -> Ok(<<Statement(None, "reset", <<RegisterName("q")>>)>>)
          [] op.kind = "Barrier" ->
                IF WholeInOrder(op.bits, nq)
                THEN Ok(<<Statement(None, "barrier", <<RegisterName("q")>>)>>)
                ELSE Ok(<<Statement(None, "barrier",
                                    [k \in 1 .. Len(op.bits) |-> qbit_names[op.bits[k]]])>>)

\* the loop over the operations from the i-th on, res being the program so far
RECURSIVE OpenQasmFrom(_, _, _, _, _)
OpenQasmFrom(nq, nc, l, i, res) ==
    IF i > Len(l) THEN [status |-> "Ok", val |-> res]
    ELSE LET r == OpenQasmOp(nq, nc, l[i])
         IN  IF r.status # "Ok" THEN r
             ELSE OpenQasmFrom(nq, nc, l, i + 1, res \o r.val)

\* the head of the program: the version, the include and the registers
QasmHeader(nq, nc) ==
    <<Statement(None, "OPENQASM 2.0", << >>), Statement(None, "include \"qelib1.inc\"", << >>)>>
    \o (IF nq > 0 THEN <<Statement(None, "qreg", <<BitName("q", nq)>>)>> ELSE << >>)
    \o (IF nc > 0 THEN <<Statement(None, "creg", <<BitName("b", nc)>>)>> ELSE << >>)

\* Circuit::open_qasm on the operation list l
OpenQasm(nq, nc, l) == OpenQasmFrom(nq, nc, l, 1, QasmHeader(nq, nc))

---------------------------------------------------------------------------
\* Circuit::c_qasm.  The program is a list of statements as for open_qasm; a
\* conditional gate is the statement c-gate with the names of the condition
\* bits before those of the qubits.

C_QASM_MEASUREMENT_MSG ==
    "In cQasm, no classical registers can be specified. Measurements must be made to a classical bit with the same index as the qubit"

C_QASM_PEEK_MSG ==
    "Peeking into the quantum state is not a physical operation, and is not supported in c-Qasm"

\* Circuit::check_c_qasm_measurement
check_c_qasm_measurement(qbit, cbit) ==
    IF qbit # cbit THEN [status |-> "Err", val |-> C_QASM_MEASUREMENT_MSG]
    ELSE [status |-> "Ok", val |-> NoVal]

\* the names of gates in c-Qasm
CQasmGateName(g) ==
    CASE g = "X" -> "x"
      [] g = "Z" -> "z"
      [] g = "H" -> "h"
      [] g = "S" -> "s"
      [] g = "Sdg" -> "sdag"
      [] g = "CX" -> "cnot"

\* gate.c_qasm(bit_names, bits)
gate_c_qasm(g, bit_names, bits) ==
    Statement(None, CQasmGateName(g), [k \in 1 .. Len(bits) |-> bit_names[bits[k]]])

\* the names of conditional gates in c-Qasm
CQasmConditionalName(g) ==
    CASE g = "X" -> "c-x"
      [] g = "Z" -> "c-z"
      [] g = "H" -> "c-h"
      [] g = "S" -> "c-s"
      [] g = "Sdg" -> "c-sdag"
      [] g = "CX" -> "c-cnot"

\* gate.conditional_c_qasm(condition, bit_names, bits): c-gate condition, bits
gate_conditional_c_qasm(g, conditions, bit_names, bits) ==
    Statement(None, CQasmConditionalName(g),
              conditions \o [k \in 1 .. Len(bits) |-> bit_names[bits[k]]])

\* the statements not b[idx] for the control bits whose bit of target is 0
RECURSIVE NotStatements(_, _, _, _)
NotStatements(control, target, cbit_names, shift) ==
    IF shift >= Len(control) THEN << >>
    ELSE (IF Bit(target, shift) = 0
          THEN <<Statement(None, "not", <<cbit_names[control[shift + 1]]>>)>>
          ELSE << >>)
         \o NotStatements(control, target, cbit_names, shift + 1)

\* the gates a measurement of all qubits in basis is preceded with
RECURSIVE CBasisStatements(_, _, _, _)
CBasisStatements(basis, qbit_names, bit, nq) ==
    IF bit >= nq THEN << >>
    ELSE (CASE basis = "X" -> <<gate_c_qasm("H", qbit_names, <<bit>>)>>
            [] basis = "Y" -> <<gate_c_qasm("Sdg", qbit_names, <<bit>>),
                                gate_c_qasm("H", qbit_names, <<bit>>)>>
            [] OTHER -> << >>)
         \o CBasisStatements(basis, qbit_names, bit + 1, nq)

\* one turn of the loop over the operations: the statements of op, or the
\* failure the export ends with; reading a name that the vector of names
\* does not hold aborts the export
CQasmOp(nq, op) ==
    LET qbit_names == BitNames("q", nq)
        cbit_names == BitNames("b", nq)
        Ok(stmts) == [status |-> "Ok", val |-> stmts]
        Panic == [status |-> "IndexOutOfBounds", val |-> NoVal]
    IN  CASE op.kind = "Gate" ->
                IF \E k \in 1 .. Len(op.bits) : op.bits[k] >= nq THEN Panic
                ELSE Ok(<<gate_c_qasm(op.gate, qbit_names, op.bits)>>)
          [] op.kind = "ConditionalGate" /\ op.control = << >> ->
                IF \E k \in 1 .. Len(op.bits) : op.bits[k] >= nq THEN Panic
                ELSE Ok(<<gate_c_qasm(op.gate, qbit_names, op.bits)>>)
          [] op.kind = "ConditionalGate" /\ op.control # << >> ->
                IF \/ \E k \in 1 .. Len(op.control) : op.control[k] >= nq
                   \/ \E k \in 1 .. Len(op.bits) : op.bits[k] >= nq
                THEN Panic
                ELSE Ok(NotStatements(op.control, op.target, cbit_names, 0)
                        \o <<gate_conditional_c_qasm(op.gate,
                                 [k \in 1 .. Len(op.control) |-> cbit_names[op.control[k]]],
                                 qbit_names, op.bits)>>
                        \o NotStatements(op.control, op.target, cbit_names, 0))
          [] op.kind = "Measure" ->
                IF check_c_qasm_measurement(op.qbit, op.cbit).status # "Ok"
                THEN check_c_qasm_measurement(op.qbit, op.cbit)
                ELSE Ok(<<Statement(None,
                                    CASE op.basis = "X" -> "measure_x"
                                      [] op.basis = "Y" -> "measure_y"
                                      [] OTHER -> "measure",
                                    <<BitName("q", op.qbit)>>)>>)
          [] op.kind = "MeasureAll" ->
                IF \E k \in 1 .. Len(op.cbits) :
                       check_c_qasm_measurement(k - 1, op.cbits[k]).status # "Ok"
                THEN [status |-> "Err", val |-> C_QASM_MEASUREMENT_MSG]
                ELSE Ok(CBasisStatements(op.basis, qbit_names, 0, nq)
                        \o <<Statement(None, "measure_all", << >>)>>)
          [] op.kind = "PeekAll" -> [status |-> "Err", val |-> C_QASM_PEEK_MSG]
          [] op.kind = "Reset" ->
                IF op.qbit >= nq THEN Panic
                ELSE Ok(<<Statement(None, "prep_z", <<qbit_names[op.qbit]>>)>>)
          [] op.kind = "ResetAll" ->
                Ok([k \in 1 .. nq |-> Statement(None, "prep_z", <<qbit_names[k - 1]>>)])
          [] op.kind = "Barrier" -> Ok(<< >>)

\* the loop over the operations from the i-th on, res being the program so far
RECURSIVE CQasmFrom(_, _, _, _)
CQasmFrom(nq, l, i, res) ==
    IF i > Len(l) THEN [status |-> "Ok", val |-> res]
    ELSE LET r == CQasmOp(nq, l[i])
         IN  IF r.status # "Ok" THEN r
             ELSE CQasmFrom(nq, l, i + 1, res \o r.val)

\* the head of the program: the version and the number of qubits
CQasmHeader(nq) ==
    <<Statement(None, "version 1.0", << >>)>>
    \o (IF nq > 0 THEN <<Statement(None, "qubits", <<BitName("", nq)>>)>> ELSE << >>)

\* Circuit::c_qasm on the operation list l
CQasm(nq, l) == CQasmFrom(nq, l, 1, CQasmHeader(nq))

\* the circuits that are exported: two qubits, and up to MaxControl classical
\* bits
QasmShapes == {<<2, nc>> : nc \in 0 .. MaxControl}

\* the control lists of the conditional gates that are exported: up to
\* MaxControl indices, the first index beyond the register among them
QasmControlLists(nc) == UNION {[1 .. n -> 0 .. nc] : n \in 0 .. MaxControl}

\* the target words of the conditional gates that are exported: 1, and for a
\* control list that names the whole register every word of its bits and the
\* first word beyond them
QasmTargets(nc, control) ==
    IF control # << >> /\ is_full_register(nc, control) THEN 0 .. Pow2(nc) ELSE {1}

\* the operations of the circuits that are exported: the gate X, the
\* conditional gates, the measurements of one and of all qubits into the bits
\* of the register, a peek, the resets and a barrier
QasmOps(nq, nc) ==
    {GateOp("X", <<0>>), ResetOp(0), ResetAllOp, BarrierOp(<<0>>)}
    \cup UNION {{ConditionalGateOp(control, target, "X", <<0>>) :
                      target \in QasmTargets(nc, control)} : control \in QasmControlLists(nc)}
    \cup {MeasureOp(qbit, cbit, basis) :
              qbit \in Qbits(nq), cbit \in 0 .. nc - 1, basis \in Basis}
    \cup {MeasureAllOp(cbits, basis) : cbits \in CbitLists(nq, nc), basis \in Basis}
    \cup {PeekAllOp(cbits) : cbits \in CbitLists(nq, nc)}

\* the add call that appends op
AddCall(op) ==
    CASE op.kind = "Gate" -> "add_gate"
      [] op.kind = "ConditionalGate" -> "add_conditional_gate"
      [] op.kind = "Measure" -> "measure_basis"
      [] op.kind = "MeasureAll" -> "measure_all_basis"
      [] op.kind = "PeekAll" -> "peek_all"
      [] op.kind = "Reset" -> "reset"
      [] op.kind = "ResetAll" -> "reset_all"
      [] op.kind = "Barrier" -> "barrier"

\* Circuit::new
InitQasm ==
    /\ \E shape \in QasmShapes : nr_qbits = shape[1] /\ nr_cbits = shape[2]
    /\ q_state = None
    /\ c_state = None
    /\ ops = << >>
    /\ pc = 0
    /\ ret = Ret("new", << >>, "Ok", NoVal)
    /\ hist = [ev |-> "new", op |-> None, found |-> [state |-> "none", shots |-> 0],
               cleared |-> FALSE, run |-> << >>]
    /\ stabilizer = StabilizerMatrixNew(nr_qbits)
    /\ applying = NotApplying(stabilizer)

\* the calls that append an operation to the circuit
QasmAdd ==
    /\ Len(ops) < MaxQasmOps
    /\ \E op \in QasmOps(nr_qbits, nr_cbits) :
        /\ ops' = Append(ops, op)
        /\ ret' = Ret(AddCall(op), << >>, "Ok", NoVal)
    /\ hist' = HistCall("add", hist.run)
    /\ UNCHANGED <<nr_qbits, nr_cbits, q_state, c_state, pc, stabilizer, applying>>

\* Circuit::open_qasm
open_qasm ==
    /\ LET res == OpenQasm(nr_qbits, nr_cbits, ops)
       IN  ret' = Ret("open_qasm", << >>, res.status, res.val)
    /\ hist' = HistCall("read", hist.run)
    /\ UNCHANGED <<nr_qbits, nr_cbits, ops, q_state, c_state, pc, stabilizer, applying>>

\* Circuit::c_qasm
c_qasm ==
    /\ LET res == CQasm(nr_qbits, ops)
       IN  ret' = Ret("c_qasm", << >>, res.status, res.val)
    /\ hist' = HistCall("read", hist.run)
    /\ UNCHANGED <<nr_qbits, nr_cbits, ops, q_state, c_state, pc, stabilizer, applying>>

NextQasm ==
    \/ QasmAdd
    \/ open_qasm
    \/ c_qasm

SpecQasm == InitQasm /\ [][NextQasm]_vars

---------------------------------------------------------------------------
\* Gates on their own: Gate::apply_slice and Gate::matrix of the gates and of
\* Kron.  A slice is a sequence of amplitudes; the gate H scales it by
\* 1 / sqrt(2), a factor that apply_slice and matrix() carry alike and that
\* is left out of the amplitudes.

\* the gates that are combined with Kron
KronAtoms == {"X", "Z", "S", "H", "CX"}

\* cmatrix::kron_mat: the block (i, j) of the product is a1 * a0[i][j]
kron_mat(a0, a1) ==
    LET n0 == Len(a0)
        m0 == Len(a0[1])
        n1 == Len(a1)
        m1 == Len(a1[1])
    IN  [r \in 1 .. n0 * n1 |-> [c \in 1 .. m0 * m1 |->
            CMul(a1[((r - 1) % n1) + 1][((c - 1) % m1) + 1],
                 a0[((r - 1) \div n1) + 1][((c - 1) \div m1) + 1])]]

\* Gate::matrix of a gate record; for Kron the product of those of its parts
RECURSIVE matrix(_)
matrix(g) ==
    IF g.name = "Kron"
    THEN [k |-> matrix(g.g0).k + matrix(g.g1).k,
          m |-> kron_mat(matrix(g.g0).m, matrix(g.g1).m)]
    ELSE GateMatrix(g.name)

\* the assertion of Gate::apply_slice and that of Kron::apply_slice
SliceAccepted(g, len) ==
    IF g.name = "Kron" THEN len % 4 = 0 ELSE len % Pow2(nr_affected_bits(g.name)) = 0

\* the default Gate::apply_slice: block i of the result is the sum over j of
\* mat[i][j] times block j of the slice, the blocks being n amplitudes long
GateApplySlice(mat, nr_bits, state) ==
    LET n == Len(state) \div Pow2(nr_bits)
    IN  [p \in 1 .. Len(state) |->
            LET i == (p - 1) \div n
                r == (p - 1) % n
            IN  CSum([j \in 0 .. Pow2(nr_bits) - 1 |->
                        CMul(state[j * n + r + 1], mat[i + 1][j + 1])],
                     0, Pow2(nr_bits) - 1)]

\* X::apply_slice: the rows i and i + n are swapped
XApplySlice(state) ==
    LET n == Len(state) \div 2
    IN  [p \in 1 .. Len(state) |-> IF p <= n THEN state[p + n] ELSE state[p - n]]

\* apply_slice of a gate record.  Kron::apply_slice applies g0 to the slice,
\* then g1 to its first half and to its second half
RECURSIVE apply_slice(_, _)
apply_slice(g, state) ==
    IF g.name = "Kron"
    THEN LET n == Len(state) \div 2
             s0 == apply_slice(g.g0, state)
         IN  apply_slice(g.g1, SubSeq(s0, 1, n)) \o apply_slice(g.g1, SubSeq(s0, n + 1, Len(s0)))
    ELSE IF g.name = "X" THEN XApplySlice(state)
    ELSE GateApplySlice(GateMatrix(g.name).m, nr_affected_bits(g.name), state)

\* the stable sort of sort_by_key: the last element is put behind the sorted
\* elements whose key is not greater than its own
RECURSIVE SortByKey(_, _, _)
SortByKey(idxs, nr_bits, affected_bits) ==
    IF idxs = << >> THEN << >>
    ELSE LET front == SortByKey(SubSeq(idxs, 1, Len(idxs) - 1), nr_bits, affected_bits)
             x == idxs[Len(idxs)]
             n == Cardinality({p \in 1 .. Len(front) :
                     get_sort_key(front[p], nr_bits, affected_bits)
                         <= get_sort_key(x, nr_bits, affected_bits)})
         IN  SubSeq(front, 1, n) \o <<x>> \o SubSeq(front, n + 1, Len(front))

\* Permutation::inverse: the permutation that sends idxs[i] to i
PermutationInverse(idxs) ==
    [i \in 1 .. Len(idxs) |-> (CHOOSE p \in 1 .. Len(idxs) : idxs[p] = i - 1) - 1]

\* bit_permutation without the inversion
bit_permutation_sorted(nr_bits, affected_bits) ==
    SortByKey([i \in 1 .. Pow2(nr_bits) |-> i - 1], nr_bits, affected_bits)

\* bit_permutation: entry i of the permutation is the index that i maps to
bit_permutation(nr_bits, affected_bits) ==
    PermutationInverse(SortByKey([i \in 1 .. Pow2(nr_bits) |-> i - 1], nr_bits, affected_bits))

\* the lists of distinct qubit indices below nr_bits
AffectedLists(nr_bits) ==
    {l \in UNION {[1 .. k -> 0 .. nr_bits - 1] : k \in 0 .. nr_bits} :
        \A a, b \in DOMAIN l : a # b => l[a] # l[b]}

\* gates::Parameter: a value given directly, or a reference to a value
Direct(x) == [kind |-> "Direct", x |-> x]

Reference == [kind |-> "Reference", x |-> 0]

\* U1::new and U3::new
U1(lambda) == [name |-> "U1", lambda |-> lambda]

U3(theta, phi, lambda) == [name |-> "U3", theta |-> theta, phi |-> phi, lambda |-> lambda]

\* Gate::description: the name with the parameters of the gate; for Kron the
\* descriptions of the parts around the sign of the product
RECURSIVE description(_)
description(g) ==
    CASE g.name = "Kron" -> [kron |-> <<description(g.g0), description(g.g1)>>]
      [] g.name = "U1" -> [name |-> "U1", params |-> <<g.lambda>>]
      [] g.name = "U3" -> [name |-> "U3", params |-> <<g.theta, g.phi, g.lambda>>]
      [] OTHER -> [name |-> g.name, params |-> << >>]

\* the results of Square::square
SquareOk(g) == [status |-> "Ok", gate |-> g, args |-> None]

OpNotImplemented(op, g) ==
    [status |-> "OpNotImplemented", gate |-> None, args |-> [op |-> op, gate |-> description(g)]]

ReferenceArithmetic == [status |-> "ReferenceArithmetic", gate |-> None, args |-> None]

\* square, with Kron handing on the error of the part that fails
RECURSIVE square_propagating(_)
square_propagating(g) ==
    CASE g.name = "Kron" ->
            LET g0sq == square_propagating(g.g0)
                g1sq == square_propagating(g.g1)
            IN  IF g0sq.status # "Ok" THEN g0sq
                ELSE IF g1sq.status # "Ok" THEN g1sq
                ELSE SquareOk(Kron(g0sq.gate, g1sq.gate))
      [] g.name = "U1" ->
            IF g.lambda.kind = "Direct" THEN SquareOk(U1(Direct(2 * g.lambda.x)))
            ELSE ReferenceArithmetic
      [] g.name \in {"X", "H"} -> SquareOk(NamedGate("I"))
      [] OTHER -> OpNotImplemented("square", g)

\* Square::square of a gate record: U1 doubles a direct parameter, U3 keeps
\* the default that fails, the square of X and of H is the identity, and Kron
\* squares its parts
RECURSIVE square(_)
square(g) ==
    CASE g.name = "Kron" ->
            LET g0sq == square(g.g0)
                g1sq == square(g.g1)
            IN  IF g0sq.status = "Ok" /\ g1sq.status = "Ok"
                THEN SquareOk(Kron(g0sq.gate, g1sq.gate))
                ELSE OpNotImplemented("square", g)
      [] g.name = "U1" ->
            IF g.lambda.kind = "Direct" THEN SquareOk(U1(Direct(2 * g.lambda.x)))
            ELSE ReferenceArithmetic
      [] g.name \in {"X", "H"} -> SquareOk(NamedGate("I"))
      [] OTHER -> OpNotImplemented("square", g)

\* whether the matrices of the parts of a gate are in the model
RECURSIVE HasMatrix(_)
HasMatrix(g) ==
    IF g.name = "Kron" THEN HasMatrix(g.g0) /\ HasMatrix(g.g1)
    ELSE g.name \in {"X", "Z", "S", "H", "CX"}

\* whether the parts of a gate implement Square in the model
RECURSIVE HasSquare(_)
HasSquare(g) ==
    IF g.name = "Kron" THEN HasSquare(g.g0) /\ HasSquare(g.g1)
    ELSE g.name \in {"X", "H", "U1", "U3"}

\* the gates Kron(a, b), Kron(Kron(a, b), c) and Kron(a, Kron(b, c))
KronGates ==
    LET one == {NamedGate(a) : a \in {a \in KronAtoms : nr_affected_bits(a) = 1}}
        two == {Kron(a, b) : a \in one, b \in one}
    IN  {Kron(NamedGate(a), NamedGate(b)) : a \in KronAtoms, b \in KronAtoms}
        \cup {Kron(a, b) : a \in two, b \in one}
        \cup {Kron(a, b) : a \in one, b \in two}

\* the gates with parameters and the gate T, alone and combined with Kron
ParameterGates ==
    LET par == {U1(Direct(1)), U1(Reference), U3(Direct(1), Direct(0), Direct(2))}
        one == par \cup {NamedGate("X"), NamedGate("H"), NamedGate("T")}
    IN  par
        \cup {Kron(a, b) : a \in one, b \in one}
        \cup {Kron(Kron(a, b), c) : a \in par, b \in par, c \in par}

\* the lists of Pauli operations a gate of nr_bits bits is asked to conjugate:
\* every list of nr_bits operations, and lists that are too short or too long
PauliLists(nr_bits) ==
    [1 .. nr_bits -> {"I", "Z", "X", "Y"}]
    \cup [1 .. nr_bits - 1 -> {"Z", "X"}]
    \cup [1 .. nr_bits + 1 -> {"Z"}]

\* the basis vector |j> of length len
BasisSlice(len, j) == [p \in 1 .. len |-> IF p = j + 1 THEN COMPLEX_ONE ELSE COMPLEX_ZERO]

\* the slices a gate of nr_bits bits is applied to: the basis vectors, with
\* blocks of one and of two amplitudes, and one vector without a zero
Slices(nr_bits) ==
    UNION {{BasisSlice(Pow2(nr_bits) * b, j) : j \in 0 .. Pow2(nr_bits) * b - 1} : b \in {1, 2}}
    \cup {[p \in 1 .. Pow2(nr_bits) |-> <<p, 1>>]}

\* a gate that has not been used yet
GateNew(g) ==
    [call |-> "new", gate |-> g, state |-> << >>, result |-> << >>, status |-> "Ok",
     nr_bits |-> 0, bits |-> << >>, perm |-> << >>,
     paulis |-> << >>, conj |-> [status |-> "Ok", ops |-> << >>, flip |-> FALSE],
     sq |-> SquareOk(g)]

\* Gate::apply_slice is called on a slice
ApplySlice ==
    /\ applying.call = "new"
    /\ HasMatrix(applying.gate)
    /\ \E state \in Slices(GateBits(applying.gate)) :
        applying' = [applying EXCEPT
            !.call = "apply_slice",
            !.state = state,
            !.result = IF SliceAccepted(applying.gate, Len(state))
                       THEN apply_slice(applying.gate, state) ELSE state,
            !.status = IF SliceAccepted(applying.gate, Len(state))
                       THEN "Ok" ELSE "AssertionFailed"]
    /\ UNCHANGED stabilizer
    /\ CircuitUnchanged

\* bit_permutation is called for a system of nr_bits qubits
BitPermutation ==
    /\ applying.call = "new"
    /\ \E n \in 1 .. MaxPermutationBits :
        \E affected_bits \in AffectedLists(n) :
            applying' = [applying EXCEPT
                !.call = "bit_permutation",
                !.nr_bits = n,
                !.bits = affected_bits,
                !.perm = bit_permutation(n, affected_bits)]
    /\ UNCHANGED stabilizer
    /\ CircuitUnchanged

\* Gate::conjugate is called on a list of Pauli operations
Conjugate ==
    /\ applying.call = "new"
    /\ \E paulis \in PauliLists(GateBits(applying.gate)) :
        applying' = [applying EXCEPT
            !.call = "conjugate",
            !.paulis = paulis,
            !.conj = conjugate(applying.gate, paulis)]
    /\ UNCHANGED stabilizer
    /\ CircuitUnchanged

\* Square::square is called
Square ==
    /\ applying.call = "new"
    /\ HasSquare(applying.gate)
    /\ applying' = [applying EXCEPT !.call = "square", !.sq = square(applying.gate)]
    /\ UNCHANGED stabilizer
    /\ CircuitUnchanged

\* a gate built with Kron::new
InitGate ==
    /\ nr_qbits = 1
    /\ nr_cbits = 1
    /\ q_state = None
    /\ c_state = None
    /\ ops = << >>
    /\ pc = 0
    /\ ret = Ret("new", << >>, "Ok", NoVal)
    /\ hist = [ev |-> "new", op |-> None, found |-> [state |-> "none", shots |-> 0],
               cleared |-> FALSE, run |-> << >>]
    /\ stabilizer = StabilizerMatrixNew(1)
    /\ \E g \in KronGates \cup ParameterGates : applying = GateNew(g)

NextGate ==
    \/ ApplySlice
    \/ BitPermutation
    \/ Conjugate
    \/ Square

SpecGate == InitGate /\ [][NextGate]_vars

\* C26: Kron(G0, G1).apply_slice transforms a slice in block layout as the
\* multiplication by Kron(G0, G1).matrix() = kron_mat(G0.matrix(), G1.matrix())
\* on the leading n0 + n1 bits does, whatever the numbers of bits of G0 and G1
C26_KronApplySliceIsMatrix ==
    (applying.call = "apply_slice" /\ applying.status = "Ok")
        => applying.result = GateApplySlice(matrix(applying.gate).m,
                                            GateBits(applying.gate), applying.state)

\* the qubits below nr_bits that are not in affected_bits, in ascending order
RemainingBits(nr_bits, affected_bits) ==
    SelectSeq([q \in 1 .. nr_bits |-> q - 1],
              LAMBDA q : \A j \in DOMAIN affected_bits : affected_bits[j] # q)

\* C27: bit_permutation(N, affected) is a bijection on 0 .. 2^N - 1, and the
\* index i maps to has, from its most significant bit down, the bits of i at
\* the qubits of affected in their order and then the bits of i at the other
\* qubits in ascending order (qubit q is bit N - 1 - q of an index)
C27_BitPermutation ==
    applying.call = "bit_permutation" =>
        LET n == applying.nr_bits
            affected_bits == applying.bits
            rest == RemainingBits(n, affected_bits)
            perm == applying.perm
        IN  /\ Len(perm) = Pow2(n)
            /\ {perm[p] : p \in 1 .. Len(perm)} = 0 .. Pow2(n) - 1
            /\ \A i \in 0 .. Pow2(n) - 1 :
                /\ \A j \in 1 .. Len(affected_bits) :
                    Bit(perm[i + 1], n - j) = Bit(i, n - 1 - affected_bits[j])
                /\ \A m \in 1 .. Len(rest) :
                    Bit(perm[i + 1], n - Len(affected_bits) - m) = Bit(i, n - 1 - rest[m])

\* the permutation for the qubits 2 and 0 of three: b0 b1 b2 goes to b2 b0 b1
C27_Witness ==
    /\ applying.call = "bit_permutation"
    /\ applying.nr_bits = 3
    /\ applying.bits = <<2, 0>>
    /\ applying.perm = <<0, 4, 1, 5, 2, 6, 3, 7>>

\* C28: Kron(G0, G1).conjugate(ops) fails and leaves ops alone when ops has
\* not n0 + n1 operations; otherwise it fails with NotAStabilizer exactly when
\* G0 or G1 fails, and when neither does ops[..n0] is conjugated by G0,
\* ops[n0..] by G1 and the result is the XOR of the two flip flags; Kron(X, T)
\* fails on [Z, Z]
C28_KronConjugate ==
    (applying.call = "conjugate" /\ applying.gate.name = "Kron") =>
        LET g == applying.gate
            paulis == applying.paulis
            res == applying.conj
            n0 == GateBits(g.g0)
        IN  IF Len(paulis) # GateBits(g)
            THEN res.status \notin {"Ok", "NotAStabilizer"} /\ res.ops = paulis
            ELSE LET c0 == conjugate(g.g0, SubSeq(paulis, 1, n0))
                     c1 == conjugate(g.g1, SubSeq(paulis, n0 + 1, Len(paulis)))
                 IN  /\ res.status \in {"Ok", "NotAStabilizer"}
                     /\ (res.status = "NotAStabilizer") <=> (c0.status # "Ok" \/ c1.status # "Ok")
                     /\ res.status = "Ok" =>
                            /\ res.ops = c0.ops \o c1.ops
                            /\ res.flip = (c0.flip # c1.flip)
                     /\ (g = Kron(NamedGate("X"), NamedGate("T")) /\ paulis = <<"Z", "Z">>)
                            => res.status = "NotAStabilizer"

\* Kron(X, H) turns [Z, Z] into [Z, X] and flips the sign
C28_Witness ==
    /\ applying.call = "conjugate"
    /\ applying.gate = Kron(NamedGate("X"), NamedGate("H"))
    /\ applying.paulis = <<"Z", "Z">>
    /\ applying.conj = [status |-> "Ok", ops |-> <<"Z", "X">>, flip |-> TRUE]

\* C30: Kron(G0, G1).square() is Ok(Kron(G0.square(), G1.square())) when both
\* parts can be squared and Err(OpNotImplemented("square", description of the
\* Kron gate)) otherwise, whatever the error of the part; U3.square() fails
\* with OpNotImplemented; U1.square() is U1(2 * lambda) for a direct parameter
\* and ReferenceArithmetic otherwise
C30_Square ==
    applying.call = "square" =>
        LET g == applying.gate
            res == applying.sq
        IN  /\ g.name = "Kron" =>
                LET g0sq == square(g.g0)
                    g1sq == square(g.g1)
                IN  IF g0sq.status = "Ok" /\ g1sq.status = "Ok"
                    THEN res.status = "Ok" /\ res.gate = Kron(g0sq.gate, g1sq.gate)
                    ELSE /\ res.status = "OpNotImplemented"
                         /\ res.args = [op |-> "square", gate |-> description(g)]
            /\ g.name = "U3" => res.status = "OpNotImplemented"
            /\ g.name = "U1" =>
                IF g.lambda.kind = "Direct"
                THEN res.status = "Ok" /\ res.gate = U1(Direct(2 * g.lambda.x))
                ELSE res.status = "ReferenceArithmetic"

\* the square of Kron(U1(reference), X) is not implemented, although the
\* part that fails reports ReferenceArithmetic
C30_Witness ==
    /\ applying.call = "square"
    /\ applying.gate = Kron(U1(Reference), NamedGate("X"))
    /\ square(applying.gate.g0).status = "ReferenceArithmetic"
    /\ applying.sq.status = "OpNotImplemented"
    /\ applying.sq.args.gate = [kron |-> <<[name |-> "U1", params |-> <<Reference>>],
                                          [name |-> "X", params |-> << >>]>>]

---------------------------------------------------------------------------
\* Properties of the executor

\* the word the control bits c_0 .. c_{m-1} of word w form:
\* Sum_k ((w >> c_k) & 1) << k
RECURSIVE SumWord(_, _, _)
SumWord(control, w, k) ==
    IF k >= Len(control) THEN 0
    ELSE Bit(w, control[k + 1]) * Pow2(k) + SumWord(control, w, k + 1)

\* the step is a turn of the loop of reexecute on an operation of this kind
Replays(kind) == pc > 0 /\ ops[pc].kind = kind

C2_EmptyControlUnconditional ==
    [][(Replays("ConditionalGate") /\ ops[pc].control = << >>) =>
        q_state' = Some(apply_gate(ops[pc].gate, ops[pc].bits, nr_qbits, Unwrap(q_state)))]_vars

\* C3: execute(nr_shots) starts the replay from nr_shots columns |0...0> and
\* nr_shots zero words, whatever state it found.
C3_ExecuteClears ==
    hist.ev = "execute" =>
        LET nr_shots == ret.arg[1]
            q == Unwrap(q_state)
            c == Unwrap(c_state)
        IN  /\ ret.call = "execute"
            /\ DOMAIN q = 1 .. nr_shots
            /\ DOMAIN c = 1 .. nr_shots
            /\ \A s \in 1 .. nr_shots :
                /\ c[s] = 0
                /\ q[s].k = 0
                /\ DOMAIN q[s].v = 0 .. Pow2(nr_qbits) - 1
                /\ \A i \in DOMAIN q[s].v :
                    q[s].v[i] = IF i = 0 THEN <<1, 0>> ELSE <<0, 0>>

\* C3 witness: execute has just been called on a circuit whose earlier run,
\* over another number of shots, had left a used state
C3_Witness ==
    /\ hist.ev = "execute"
    /\ hist.found.state = "used"
    /\ hist.found.shots # ret.arg[1]
    /\ ops # << >>

\* the operations the current run has replayed so far: the list up to pc, or
\* the whole list once the loop is over
Replayed == IF pc = 0 THEN ops ELSE SubSeq(ops, 1, pc - 1)

\* C4: reexecute leaves the quantum state and the register as the previous
\* run left them, and its loop replays the operations of the list one by one,
\* in list order, each once.
C4_ReexecuteReplays ==
    [][/\ (pc = 0 /\ hist'.ev = "reexecute") =>
            /\ q_state' = q_state
            /\ c_state' = c_state
            /\ pc' = FirstPc
            /\ hist'.run = << >>
       /\ pc > 0 =>
            /\ hist'.ev = "op"
            /\ hist'.op = Some(ops[pc])
            /\ hist'.run = Append(hist.run, ops[pc])
       /\ (hist'.ev \in {"execute", "reexecute", "op"}) => hist'.run = Replayed']_vars

\* C4 witness: reexecute has just been called on a used state, and the
\* register the previous run left makes the conditional gate that heads the
\* list fire for some shot
C4_Witness ==
    /\ hist.ev = "reexecute"
    /\ hist.found.state = "used"
    /\ pc = 1
    /\ ops[1].kind = "ConditionalGate"
    /\ ops[1].control # << >>
    /\ \E s \in DOMAIN Unwrap(c_state) :
        SumWord(ops[1].control, Unwrap(c_state)[s], 0) = ops[1].target

\* the calls that need an executed circuit
NeedExecuted == {"reexecute", "histogram", "histogram_vec", "histogram_string"}

QubitIs(col, qbit, o) ==
    \A i \in DOMAIN col.v : Bit(i, nr_qbits - qbit - 1) # o => col.v[i] = <<0, 0>>

\* word w with bit cbit replaced by o
WithBit(w, cbit, o) == w - Bit(w, cbit) * Pow2(cbit) + o * Pow2(cbit)

\* C6: a Measure step sets bit cbit of the word of every shot to the outcome
\* of that shot, the value the qubit has in the collapsed column of the shot,
\* whatever the bit was, and leaves the other bits of the word unchanged.
C6_MeasureSetsBit ==
    [][Replays("Measure") =>
        LET op == ops[pc]
            c == Unwrap(c_state)
        IN  /\ DOMAIN Unwrap(c_state') = DOMAIN c
            /\ \A s \in DOMAIN c :
                \E o \in {0, 1} :
                    /\ QubitIs(Unwrap(q_state')[s], op.qbit, o)
                    /\ Unwrap(c_state')[s] = WithBit(c[s], op.cbit, o)]_vars

\* C6 witness: a measurement has just cleared a bit that was set; the shots
\* got different outcomes, and another bit of a word is set
C6_Witness ==
    /\ hist.ev = "op"
    /\ Unwrap(hist.op).kind = "Measure"
    /\ hist.cleared
    /\ \E s, t \in DOMAIN Unwrap(c_state) :
        /\ Bit(Unwrap(c_state)[s], Unwrap(hist.op).cbit) = 0
        /\ Bit(Unwrap(c_state)[t], Unwrap(hist.op).cbit) = 1
        /\ \E k \in 0 .. nr_cbits - 1 :
            k # Unwrap(hist.op).cbit /\ Bit(Unwrap(c_state)[s], k) = 1

\* Measure(0, cbits[0]), Measure(1, cbits[1]), ... in the Z basis, from qubit
\* qbit on, on each of the <<quantum state, register>> pairs of rs
RECURSIVE MeasureEach(_, _, _)
MeasureEach(cbits, qbit, rs) ==
    IF qbit >= nr_qbits THEN rs
    ELSE MeasureEach(cbits, qbit + 1,
             UNION {RunMeasure(MeasureOp(qbit, cbits[qbit + 1], "Z"), r[1], r[2]) : r \in rs})

\* the classical bits listed in cbits
Listed(cbits) == {cbits[i] : i \in DOMAIN cbits}

\* X on qubit 0, then measure_all([1, 0])
CircuitMeasureAllSwapped == <<GateOp("X", <<0>>), MeasureAllOp(<<1, 0>>, "Z")>>

\* C7: a MeasureAll step in the Z basis has the results of measuring qubit 0
\* into cbits[0], qubit 1 into cbits[1], ... one after the other; bits that
\* are not listed keep their value; executing X(0), measure_all([1, 0])
\* gives the word 0b10 in every shot.
C7_MeasureAllIsMeasureEach ==
    [][/\ (Replays("MeasureAll") /\ ops[pc].basis = "Z") =>
            LET op == ops[pc]
                q == Unwrap(q_state)
                c == Unwrap(c_state)
            IN  /\ RunMeasureAll(op, q, c) = MeasureEach(op.cbits, 0, {<<q, c>>})
                /\ <<Unwrap(q_state'), Unwrap(c_state')>> \in
                       MeasureEach(op.cbits, 0, {<<q, c>>})
                /\ \A s \in DOMAIN c : \A k \in (0 .. nr_cbits - 1) \ Listed(op.cbits) :
                    Bit(Unwrap(c_state')[s], k) = Bit(c[s], k)
       /\ (ops' = CircuitMeasureAllSwapped /\ ret'.call = "execute" /\ pc' = 0
                /\ hist'.run = ops') =>
            \A s \in DOMAIN Unwrap(c_state') : Unwrap(c_state')[s] = 2]_vars

\* C7 witness: measure_all([1, 0]) has just been replayed on an entangled
\* pair, which gave 11 in one shot and 00 in another
C7_Witness ==
    /\ ops = CircuitBell
    /\ hist.ev = "op"
    /\ hist.op = Some(MeasureAllOp(<<1, 0>>, "Z"))
    /\ \E s, t \in DOMAIN Unwrap(c_state) : Unwrap(c_state)[s] = 3 /\ Unwrap(c_state)[t] = 0

\* the basis states column col has an amplitude on
Support(col) == {i \in DOMAIN col.v : col.v[i] # <<0, 0>>}

\* the gates that take the basis of qubit qbit to the Z basis
ToZBasis(basis, qbit, q) ==
    IF basis = "X" THEN apply_gate("H", <<qbit>>, nr_qbits, q)
    ELSE IF basis = "Y"
         THEN apply_gate("H", <<qbit>>, nr_qbits, apply_gate("Sdg", <<qbit>>, nr_qbits, q))
         ELSE q

\* the basis change on every qubit from qbit on
RECURSIVE AllToZBasis(_, _, _)
AllToZBasis(basis, qbit, q) ==
    IF qbit >= nr_qbits THEN q
    ELSE AllToZBasis(basis, qbit + 1, ToZBasis(basis, qbit, q))

\* C8: a Measure step is the Z-measurement after H (basis X), after S-dagger
\* then H (basis Y), or alone (basis Z); a MeasureAll step is the
\* Z-measurement of all qubits after the basis change of every qubit.
C8_BasisChangeThenZ ==
    [][/\ Replays("Measure") =>
            LET op == ops[pc]
                z == ToZBasis(op.basis, op.qbit, Unwrap(q_state))
            IN  \A s \in DOMAIN z :
                    \E o \in {0, 1} :
                        /\ CanMeasure(z[s], op.qbit, nr_qbits, o)
                        /\ Unwrap(q_state')[s] = Collapse(z[s], op.qbit, nr_qbits, o)
                        /\ Unwrap(c_state')[s] = SetBit(Unwrap(c_state)[s], op.cbit, o)
       /\ Replays("MeasureAll") =>
            LET op == ops[pc]
                z == AllToZBasis(op.basis, 0, Unwrap(q_state))
            IN  \A s \in DOMAIN z :
                    \E b \in Support(z[s]) :
                        /\ Unwrap(q_state')[s] = CollapseBasis(z[s], b)
                        /\ Unwrap(c_state')[s] =
                               WriteBits(Unwrap(c_state)[s], op.cbits, b, nr_qbits, 0)]_vars

\* C8 witness: a measurement of one qubit in the Y basis has just given
\* different outcomes in two shots
C8_Witness ==
    /\ hist.ev = "op"
    /\ Unwrap(hist.op).kind = "Measure"
    /\ Unwrap(hist.op).basis = "Y"
    /\ \E s, t \in DOMAIN Unwrap(c_state) :
        Bit(Unwrap(c_state)[s], Unwrap(hist.op).cbit)
            # Bit(Unwrap(c_state)[t], Unwrap(hist.op).cbit)

\* C9: a PeekAll step leaves the quantum state as it is and writes to the
\* bits cbits[i] the bits of a basis state the shot has an amplitude on,
\* other bits unchanged; at the end of a run of H, PeekAll([0]), H,
\* PeekAll([1]) on one qubit, bit 1 is 0 in every shot.
C9_PeekAllKeepsState ==
    [][/\ Replays("PeekAll") =>
            LET op == ops[pc]
                q == Unwrap(q_state)
                c == Unwrap(c_state)
            IN  /\ q_state' = q_state
                /\ DOMAIN Unwrap(c_state') = DOMAIN c
                /\ \A s \in DOMAIN c :
                    /\ \E b \in Support(q[s]) : \A i \in 0 .. nr_qbits - 1 :
                        Bit(Unwrap(c_state')[s], op.cbits[i + 1]) = Bit(b, nr_qbits - i - 1)
                    /\ \A k \in (0 .. nr_cbits - 1) \ Listed(op.cbits) :
                        Bit(Unwrap(c_state')[s], k) = Bit(c[s], k)
       /\ (ops' = CircuitPeek /\ pc' = 0 /\ hist'.run = ops') =>
            \A s \in DOMAIN Unwrap(c_state') : Bit(Unwrap(c_state')[s], 1) = 0]_vars

\* C9 witness: the run of H, PeekAll([0]), H, PeekAll([1]) is over and the
\* first peek recorded 1 in one shot and 0 in another
C9_Witness ==
    /\ ops = CircuitPeek
    /\ pc = 0
    /\ hist.ev = "op"
    /\ hist.run = ops
    /\ \E s, t \in DOMAIN Unwrap(c_state) :
        Bit(Unwrap(c_state)[s], 0) = 1 /\ Bit(Unwrap(c_state)[t], 0) = 0

\* C10: a Reset step leaves the qubit at 0 in every shot; a Z outcome another
\* qubit can give afterwards is one it could give before (a qubit that was 1
\* is still 1), and the register stays; executing H(0), Z(0), X(1),
\* reset(0), measure(0, 0), measure(1, 1) gives the word 0b10 in every shot.
C10_ResetZeroes ==
    [][/\ Replays("Reset") =>
            LET op == ops[pc]
                q == Unwrap(q_state)
            IN  /\ c_state' = c_state
                /\ DOMAIN Unwrap(q_state') = DOMAIN q
                /\ \A s \in DOMAIN q :
                    /\ QubitIs(Unwrap(q_state')[s], op.qbit, 0)
                    /\ \A j \in Qbits(nr_qbits) \ {op.qbit} : \A o \in {0, 1} :
                        QubitIs(q[s], j, o) => QubitIs(Unwrap(q_state')[s], j, o)
       /\ (ops' = CircuitReset /\ ret'.call = "execute" /\ pc' = 0 /\ hist'.run = ops') =>
            \A s \in DOMAIN Unwrap(c_state') : Unwrap(c_state')[s] = 2]_vars

\* C10 witness: in an execution of the circuit of test_reset, reset(0) has
\* just been replayed, on a qubit that H and Z had left in a superposition;
\* qubit 0 is 0 and qubit 1, set by X, is 1 in both shots
C10_Witness ==
    /\ ops = CircuitReset
    /\ ret.call = "execute"
    /\ hist.ev = "op"
    /\ hist.op = Some(ResetOp(0))
    /\ Len(Unwrap(q_state)) = 2
    /\ \A s \in DOMAIN Unwrap(q_state) :
        QubitIs(Unwrap(q_state)[s], 0, 0) /\ QubitIs(Unwrap(q_state)[s], 1, 1)

\* C11: a ResetAll step leaves every shot in |0...0>, whatever the state was;
\* a Z-basis MeasureAll step that follows it writes 0 to the classical bit of
\* every qubit in every shot, and executing X(0), H(1), reset_all, measure_all
\* leaves the word 0 in every shot.
C11_ResetAllZeroes ==
    [][/\ Replays("ResetAll") =>
            /\ DOMAIN Unwrap(q_state') = DOMAIN Unwrap(q_state)
            /\ \A s \in DOMAIN Unwrap(q_state) :
                /\ Unwrap(q_state')[s].k = 0
                /\ DOMAIN Unwrap(q_state')[s].v = 0 .. Pow2(nr_qbits) - 1
                /\ \A i \in 0 .. Pow2(nr_qbits) - 1 :
                    Unwrap(q_state')[s].v[i] = IF i = 0 THEN <<1, 0>> ELSE <<0, 0>>
       /\ (/\ Replays("MeasureAll")
           /\ ops[pc].basis = "Z"
           /\ pc > 1
           /\ ops[pc - 1].kind = "ResetAll") =>
            \A s \in DOMAIN Unwrap(c_state') : \A i \in 1 .. Len(ops[pc].cbits) :
                i <= nr_qbits => Bit(Unwrap(c_state')[s], ops[pc].cbits[i]) = 0
       /\ (ops' = CircuitResetAll /\ pc' = 0 /\ hist'.run = ops') =>
            \A s \in DOMAIN Unwrap(c_state') : Unwrap(c_state')[s] = 0]_vars

\* C11 witness: in a run of X(0), H(1), reset_all, measure_all over two shots
\* the reset found a state that the gates had changed, and the measurement
\* after it has just been replayed
C11_Witness ==
    /\ ops = CircuitResetAll
    /\ hist.ev = "op"
    /\ hist.op = Some(MeasureAllOp(<<0, 1>>, "Z"))
    /\ hist.run = ops
    /\ Len(Unwrap(c_state)) = 2
    /\ Unwrap(q_state) = QuStateNew(nr_qbits, 2)

\* the kinds of operation that do not write the classical register
NonWriting == {"Gate", "ConditionalGate", "Reset", "ResetAll", "Barrier"}

\* C12: a Gate, ConditionalGate, Reset, ResetAll or Barrier step leaves every
\* word of the register as it is, and a Barrier step leaves the quantum state
\* as it is too.
C12_OnlyMeasurementsWrite ==
    [][/\ (pc > 0 /\ ops[pc].kind \in NonWriting) => c_state' = c_state
       /\ Replays("Barrier") => q_state' = q_state]_vars

\* C12 witness: a barrier has just been replayed after X(0) and a measurement
\* that had written the word 0b10 in both shots; the register still holds it
\* and qubit 0 is still 1
C12_Witness ==
    /\ ops = CircuitBarrier
    /\ hist.ev = "op"
    /\ hist.op = Some(BarrierOp(<<0>>))
    /\ Len(Unwrap(c_state)) = 2
    /\ \A s \in DOMAIN Unwrap(c_state) :
        Unwrap(c_state)[s] = 2 /\ QubitIs(Unwrap(q_state)[s], 0, 1)

\* C13: histogram_vec() on an executed circuit returns a vector, and the sum
\* of its entries is the number of shots.
C13_HistogramVecSums ==
    (ret.call = "histogram_vec" /\ ~IsNone(c_state)) =>
        /\ ret.status = "Ok"
        /\ ISum([k \in 0 .. Pow2(nr_cbits) - 1 |-> ret.val[k]], 0, Pow2(nr_cbits) - 1)
               = Len(Unwrap(c_state))

\* the operations replayed write only classical bits of the register
BitsInRegister ==
    \A i \in DOMAIN ops :
        /\ ops[i].kind = "Measure" => ops[i].cbit < nr_cbits
        /\ ops[i].kind \in {"MeasureAll", "PeekAll"} =>
               \A j \in DOMAIN ops[i].cbits : ops[i].cbits[j] < nr_cbits

\* histogram_vec() on circuits that write only classical bits below nr_cbits
HistogramVecSumsInRegister == BitsInRegister => C13_HistogramVecSums

\* C14: the vector histogram_vec() returns holds, for every key below
\* 2^nr_cbits, the count histogram() holds for that key, and 0 for a key
\* histogram() does not hold; histogram() holds exactly the words that occur,
\* each with the number of shots that hold it, so no key has the count 0; in
\* both, classical bit j is bit j of the key.
C14_HistogramsAgree ==
    /\ (ret.call = "histogram_vec" /\ ret.status = "Ok") =>
        LET c == Unwrap(c_state)
            map == HistogramMap(c)
        IN  /\ DOMAIN ret.val = 0 .. Pow2(nr_cbits) - 1
            /\ \A k \in DOMAIN ret.val :
                ret.val[k] = IF k \in DOMAIN map THEN map[k] ELSE 0
            /\ \A j \in 0 .. nr_cbits - 1 :
                ISum([k \in DOMAIN ret.val |-> IF Bit(k, j) = 1 THEN ret.val[k] ELSE 0],
                     0, Pow2(nr_cbits) - 1)
                    = Cardinality({s \in DOMAIN c : Bit(c[s], j) = 1})
    /\ (ret.call = "histogram" /\ ret.status = "Ok") =>
        LET c == Unwrap(c_state)
        IN  /\ DOMAIN ret.val = {c[s] : s \in DOMAIN c}
            /\ \A k \in DOMAIN ret.val : ret.val[k] > 0 /\ ret.val[k] = Count(c, k)
            /\ HistogramVecFits(c) =>
                \A k \in 0 .. Pow2(nr_cbits) - 1 :
                    HistogramVec(c)[k] = IF k \in DOMAIN ret.val THEN ret.val[k] ELSE 0

\* C14 witness: histogram_vec() has returned for a register of two shots, one
\* with the word 0b10 and one with the word 0: the keys 1 and 3 are absent
C14_Witness ==
    /\ ret.call = "histogram_vec"
    /\ ret.status = "Ok"
    /\ \E s, t \in DOMAIN Unwrap(c_state) :
        Unwrap(c_state)[s] = 2 /\ Unwrap(c_state)[t] = 0

---------------------------------------------------------------------------
\* Properties of the stabilizer tableau

\* Signed Pauli strings, multiplied exactly: [ph, ops] stands for i^ph times
\* the tensor product of the operations ops.

\* the power of i in the product P1 P2 of two Pauli operations, given by
\* their X and Z components (Y = iXZ)
IPower(p1, p2) ==
    LET x1 == to_bits(p1) \div 2
        z1 == to_bits(p1) % 2
        x2 == to_bits(p2) \div 2
        z2 == to_bits(p2) % 2
    IN  CASE x1 = 0 /\ z1 = 0 -> 0
          [] x1 = 1 /\ z1 = 1 -> (z2 - x2 + 4) % 4
          [] x1 = 1 /\ z1 = 0 -> (z2 * (2 * x2 - 1) + 4) % 4
          [] x1 = 0 /\ z1 = 1 -> (x2 * (1 - 2 * z2) + 4) % 4

\* the product of two signed Pauli strings
PauliMul(a, b) ==
    [ph |-> (a.ph + b.ph + ISum([j \in 1 .. Len(a.ops) |-> IPower(a.ops[j], b.ops[j])],
                                1, Len(a.ops))) % 4,
     ops |-> [j \in 1 .. Len(a.ops) |-> from_bits(Xor2(to_bits(a.ops[j]), to_bits(b.ops[j])))]]

\* row i of a tableau as a signed Pauli string
SignedRow(m, i) ==
    [ph |-> IF get_phase(m, i) THEN 2 ELSE 0,
     ops |-> [j \in 1 .. m.nr_bits |-> get(m, i, j - 1)]]

PauliIdentity(n) == [ph |-> 0, ops |-> [j \in 1 .. n |-> "I"]]

\* the product of the rows of m in R that are at least i, in row order
RECURSIVE RowProduct(_, _, _)
RowProduct(m, R, i) ==
    IF i >= m.nr_bits THEN PauliIdentity(m.nr_bits)
    ELSE IF i \in R THEN PauliMul(SignedRow(m, i), RowProduct(m, R, i + 1))
         ELSE RowProduct(m, R, i + 1)

\* the group the rows of m generate
Group(m) == {RowProduct(m, R, 0) : R \in SUBSET (0 .. m.nr_bits - 1)}

\* the signed Pauli string e conjugated by gate g on the qubits bits
ConjugatedString(g, bits, e) ==
    LET c == conjugate(g, [n \in 1 .. Len(bits) |-> e.ops[bits[n] + 1]])
    IN  [ph |-> IF c.flip THEN (e.ph + 2) % 4 ELSE e.ph,
         ops |-> [j \in 1 .. Len(e.ops) |->
                    IF \E n \in 1 .. Len(bits) : bits[n] = j - 1
                    THEN c.ops[CHOOSE n \in 1 .. Len(bits) : bits[n] = j - 1]
                    ELSE e.ops[j]]]

\* the step is the end of a call of apply_gate that succeeds
Normalizes == applying.status = "Running" /\ applying.row = stabilizer.nr_bits

\* C15: when a call apply_gate(G, bits) on a tableau reached from new(n)
\* succeeds, the rows generate the group that the rows it found generated,
\* each element conjugated by G with its sign (so that, from the rows
\* +Z_0 .. +Z_(n-1) of new(n) on, the rows generate the group of the conjugated
\* +Z_i); and the normalisation at the end of the call leaves the group the
\* rows generate as it is, signs included.
C15_GroupConjugated ==
    [][Normalizes =>
        /\ Group(stabilizer') = Group(stabilizer)
        /\ Group(stabilizer') =
               {ConjugatedString(Unwrap(applying.gate), applying.bits, e) :
                    e \in Group(applying.before)}]_vars

\* the call on the tableau, if any, has returned Ok
Applied == applying.status = "Ok"

\* C16: in a tableau built by new(n) and after every successful apply_gate
\* the rows commute pairwise and no product of a non-empty set of rows is the
\* identity string.
C16_RowsCommuteIndependent ==
    Applied =>
        /\ \A i0, i1 \in 0 .. stabilizer.nr_bits - 1 : RowsCommute(stabilizer, i0, i1)
        /\ RowsIndependent(stabilizer)

\* the number of operations of row i that are not I
RowWeight(m, i) == Cardinality({j \in 0 .. m.nr_bits - 1 : get(m, i, j) # "I"})

\* C16 witness: apply_gate has returned Ok on three qubits and every row of
\* the tableau holds operations on two qubits or more, with an X or a Y in
\* the first row
C16_Witness ==
    /\ applying.call = "apply_gate"
    /\ Applied
    /\ stabilizer.nr_bits = 3
    /\ \A i \in 0 .. 2 : RowWeight(stabilizer, i) >= 2
    /\ \E j \in 0 .. 2 : get_x(stabilizer, 0, j)

\* the step is a turn of the loop of apply_gate that rewrites a row
ConjugatesRow ==
    /\ applying.status = "Running"
    /\ applying.row < stabilizer.nr_bits
    /\ applying'.status = "Running"

\* C17: a turn of the loop of a successful apply_gate(G, bits) replaces the
\* operations of its row at the columns bits by their conjugation under G,
\* flips the sign of the row when conjugate says so, and leaves the other
\* columns and the other rows as they are; the normalisation starts when
\* every row is the conjugated row of the tableau the call found; from
\* new(3), H on [0] gives +XII, +IZI, +IIZ and then CX on [0, 2] gives
\* +XIX, +ZIZ, +IZI.
C17_RowsConjugated ==
    [][/\ ConjugatesRow =>
            \A r \in 0 .. stabilizer.nr_bits - 1 :
                SignedRow(stabilizer', r) =
                    IF r = applying.row
                    THEN ConjugatedString(Unwrap(applying.gate), applying.bits,
                                          SignedRow(stabilizer, r))
                    ELSE SignedRow(stabilizer, r)
       /\ Normalizes =>
            \A r \in 0 .. stabilizer.nr_bits - 1 :
                SignedRow(stabilizer, r) =
                    ConjugatedString(Unwrap(applying.gate), applying.bits,
                                     SignedRow(applying.before, r))
       /\ (/\ Normalizes
           /\ applying.before = StabilizerMatrixNew(3)
           /\ applying.gate = Some(NamedGate("H"))
           /\ applying.bits = <<0>>) =>
            Display(stabilizer') =
                <<<<"+", "X", "I", "I">>, <<"+", "I", "Z", "I">>, <<"+", "I", "I", "Z">>>>
       /\ (/\ Normalizes
           /\ Display(applying.before) =
                <<<<"+", "X", "I", "I">>, <<"+", "I", "Z", "I">>, <<"+", "I", "I", "Z">>>>
           /\ applying.gate = Some(NamedGate("CX"))
           /\ applying.bits = <<0, 2>>) =>
            Display(stabilizer') =
                <<<<"+", "X", "I", "X">>, <<"+", "Z", "I", "Z">>, <<"+", "I", "Z", "I">>>>
       ]_vars

\* C17 witness: CX on [0, 2] has returned Ok on the tableau that H on [0]
\* gives from new(3); the rows are +XIX, +ZIZ, +IZI
C17_Witness ==
    /\ Applied
    /\ applying.gate = Some(NamedGate("CX"))
    /\ applying.bits = <<0, 2>>
    /\ Display(applying.before) =
            <<<<"+", "X", "I", "I">>, <<"+", "I", "Z", "I">>, <<"+", "I", "I", "Z">>>>
    /\ Display(stabilizer) =
            <<<<"+", "X", "I", "X">>, <<"+", "Z", "I", "Z">>, <<"+", "I", "Z", "I">>>>

\* the step is a turn of the loop of apply_gate in which conjugate fails
ConjugateFails ==
    /\ applying.status = "Running"
    /\ applying.row < stabilizer.nr_bits
    /\ applying'.status # "Running"

\* C18: when conjugate fails at row i for a gate that is not a Clifford gate,
\* apply_gate returns NotAStabilizer at once: the loop stops at row i, the
\* rows from i on are the rows the call found, the rows before i are the
\* conjugated rows, the operations conjugate had rewritten for row i are not
\* written back, and the tableau is not normalised.
C18_FailureKeepsRows ==
    [][ConjugateFails =>
        /\ applying'.status = "NotAStabilizer"
        /\ applying'.row = applying.row
        /\ stabilizer' = stabilizer
        /\ \A r \in 0 .. stabilizer.nr_bits - 1 :
            SignedRow(stabilizer', r) =
                IF r < applying.row
                THEN ConjugatedString(Unwrap(applying.gate), applying.bits,
                                      SignedRow(applying.before, r))
                ELSE SignedRow(applying.before, r)
        ]_vars

\* C18 witness: apply_gate of the product of H and T has failed on a tableau
\* that earlier gates had changed; row 0 holds a Z or an X in the column of H,
\* which H had rewritten before T failed, and the tableau is as the call
\* found it
C18_Witness ==
    /\ applying.status = "NotAStabilizer"
    /\ applying.gate = Some(Kron(NamedGate("H"), NamedGate("T")))
    /\ applying.row = 0
    /\ get(stabilizer, 0, applying.bits[1]) \in {"Z", "X"}
    /\ stabilizer = applying.before
    /\ stabilizer # StabilizerMatrixNew(stabilizer.nr_bits)

\* C19: normalising a normalised tableau changes nothing: for every tableau
\* of commuting, independent rows, with any phase bits, the tableau normalize
\* leaves is one that normalize leaves as it is, operations and phase bits.
C19_NormalizeIdempotent ==
    applying.call = "normalize" =>
        LET again == normalize(stabilizer)
        IN  /\ applying.status = "Ok"
            /\ again.ok
            /\ again.m = stabilizer

\* C19 witness: normalize has returned a tableau that holds a row, with a
\* minus sign, that the tableau it found did not hold
C19_Witness ==
    /\ applying.call = "normalize"
    /\ ValidTableau(applying.before)
    /\ \E i \in 0 .. stabilizer.nr_bits - 1 :
        /\ get_phase(stabilizer, i)
        /\ \A r \in 0 .. stabilizer.nr_bits - 1 :
            SignedRow(applying.before, r) # SignedRow(stabilizer, i)

\* C24: the assertion of multiply_row never fails.  On every tableau that
\* successful apply_gate calls reach from new(n), every multiply_row(i0, i1)
\* that normalize calls accumulates the power 0 or 2 of i, and the phase bit
\* of row i0 is flipped by the call exactly when the power is 2.
C24_AssertionHolds ==
    /\ applying.status # "AssertionFailed"
    /\ \A k \in 1 .. Len(applying.calls) :
        /\ applying.calls[k].i_pow \in {0, 2}
        /\ applying.calls[k].after = (applying.calls[k].before # (applying.calls[k].i_pow = 2))

\* C24 witness: apply_gate has ended with a normalize that multiplied rows,
\* one call accumulating the power 2 and flipping the sign of its row, and
\* another the power 0
C24_Witness ==
    /\ applying.call = "apply_gate"
    /\ applying.status = "Ok"
    /\ \E k, l \in 1 .. Len(applying.calls) :
        /\ applying.calls[k].i_pow = 2
        /\ applying.calls[k].after # applying.calls[k].before
        /\ applying.calls[l].i_pow = 0

\* the power of i the claim gives for the product A*B of two operations
ClaimedPhase(A, B) ==
    CASE A = "I" \/ B = "I" \/ A = B -> 0
      [] A = "Z" /\ B = "X" -> 1
      [] A = "X" /\ B = "Z" -> 3
      [] A = "Z" /\ B = "Y" -> 3
      [] A = "Y" /\ B = "Z" -> 1
      [] A = "X" /\ B = "Y" -> 1
      [] A = "Y" /\ B = "X" -> 3

\* C25: multiply_row(i0, i1) leaves in every column of row i0 the XOR of the
\* operations rows i0 and i1 held, accumulates the phases of the column
\* products A*B (A from row i0, B from row i1) of the table (0 when A or B
\* is I or A = B; Z*X +i, X*Z -i, Z*Y -i, Y*Z +i, X*Y +i, Y*X -i), and
\* leaves row i1 as it was.
C25_ColumnProducts ==
    applying.call = "multiply_row" =>
        LET b == applying.before
            i0 == applying.bits[1]
            i1 == applying.bits[2]
            Columns == 0 .. b.nr_bits - 1
        IN  /\ \A j \in Columns :
                get_bits(stabilizer, i0, j) = Xor2(get_bits(b, i0, j), get_bits(b, i1, j))
            /\ applying.calls[1].i_pow =
                    ISum([j \in Columns |-> ClaimedPhase(get(b, i0, j), get(b, i1, j))],
                         0, b.nr_bits - 1) % 4
            /\ \A j \in Columns : get(stabilizer, i1, j) = get(b, i1, j)
            /\ get_phase(stabilizer, i1) = get_phase(b, i1)

---------------------------------------------------------------------------
\* Properties of the export to OpenQasm

\* the control list names every bit of the register of nc bits exactly once
IsPermutation(control, nc) ==
    /\ Len(control) = nc
    /\ {control[k] : k \in 1 .. Len(control)} = 0 .. nc - 1

\* the operation is a conditional gate whose control list is not empty and
\* not a permutation of the register
BadCondition(op) ==
    /\ op.kind = "ConditionalGate"
    /\ op.control # << >>
    /\ ~IsPermutation(op.control, nr_cbits)

\* C20: open_qasm returns Err for a circuit that holds a conditional gate
\* whose non-empty control list is not a permutation of [0, nr_cbits): one of
\* the wrong length, with an index out of range or with a repeated index.  It
\* returns Ok with a program for a circuit of gates and of conditional gates
\* whose control lists are empty or such permutations, in whatever order the
\* indices come.
C20_FullRegisterRequired ==
    ret.call = "open_qasm" =>
        /\ (\E i \in 1 .. Len(ops) : BadCondition(ops[i])) => ret.status = "Err"
        /\ (\A i \in 1 .. Len(ops) :
                /\ ops[i].kind \in {"Gate", "ConditionalGate"}
                /\ ~BadCondition(ops[i])) => ret.status = "Ok"

\* a circuit is exported whose conditional gate names the three bits of the
\* register in an order that is neither ascending nor descending
C20_Witness ==
    /\ ret.call = "open_qasm"
    /\ ret.status = "Ok"
    /\ \E i \in 1 .. Len(ops) :
        /\ ops[i].kind = "ConditionalGate"
        /\ ops[i].control = <<2, 0, 1>>
        /\ ret.val[Len(ret.val) - Len(ops) + i].cond = Some(4)

---------------------------------------------------------------------------
\* Properties of the exported condition

\* the conditional gates of the circuit that have control bits, in their order
ConditionalOps ==
    SelectSeq(ops, LAMBDA op : op.kind = "ConditionalGate" /\ op.control # << >>)

\* the statements of the exported program that have a condition, in their order
ConditionalStatements == SelectSeq(ret.val, LAMBDA st : st.cond # None)

\* C29: in a program that open_qasm returns, the condition b == T' of a
\* conditional gate with control bits holds for a word w of the register
\* exactly when the executor applies the gate to a shot with the classical
\* word w, whatever the target word of the gate is
C29_ConditionAgrees ==
    (ret.call = "open_qasm" /\ ret.status = "Ok") =>
        /\ Len(ConditionalStatements) = Len(ConditionalOps)
        /\ \A k \in 1 .. Len(ConditionalOps) :
            \A w \in 0 .. Pow2(nr_cbits) - 1 :
                (ConditionalStatements[k].cond = Some(w))
                    <=> ConditionalMask(ConditionalOps[k].control,
                                        ConditionalOps[k].target, <<w>>)[1]

---------------------------------------------------------------------------
\* Properties of the export to c-Qasm

\* the operation is a measurement into a classical bit with another index
\* than the qubit has
BadMeasurement(op) ==
    \/ op.kind = "Measure" /\ op.qbit # op.cbit
    \/ op.kind = "MeasureAll" /\ \E k \in 1 .. Len(op.cbits) : op.cbits[k] # k - 1

IsMeasure(op) == op.kind = "Measure"

IsMeasureStatement(st) == st.stmt \in {"measure", "measure_x", "measure_y"}

\* the statement the claim names for a measurement of one qubit
MeasureStatement(op) ==
    [cond |-> None,
     stmt |-> IF op.basis = "X" THEN "measure_x"
              ELSE IF op.basis = "Y" THEN "measure_y" ELSE "measure",
     args |-> <<[reg |-> "q", idx |-> Some(op.qbit)]>>]

\* C21: c_qasm returns Err, with a message and no program, for a circuit
\* that holds a Measure whose qubit and classical bit differ or a MeasureAll
\* with cbits[i] # i for some i; when it returns a program, the program holds
\* for every Measure of the circuit, in their order, the statement measure,
\* measure_x or measure_y of its basis on q[qbit].
C21_MeasurementSameIndex ==
    ret.call = "c_qasm" =>
        /\ (\E i \in 1 .. Len(ops) : BadMeasurement(ops[i])) =>
                /\ ret.status = "Err"
                /\ ret.val \in {C_QASM_MEASUREMENT_MSG, C_QASM_PEEK_MSG}
        /\ ret.status = "Ok" =>
                LET measures == SelectSeq(ops, IsMeasure)
                IN  SelectSeq(ret.val, IsMeasureStatement)
                        = [k \in 1 .. Len(measures) |-> MeasureStatement(measures[k])]

\* C22: a circuit that holds a PeekAll, at whatever position and among
\* whatever other operations, is exported neither by open_qasm nor by
\* c_qasm: both return Err.
C22_PeekNotExported ==
    (/\ ret.call \in {"open_qasm", "c_qasm"}
     /\ \E i \in 1 .. Len(ops) : ops[i].kind = "PeekAll") => ret.status = "Err"

---------------------------------------------------------------------------
\* Properties of the order of the control bits

\* the word the control bits c_0 .. c_{m-1} of word w form when c_0 is read
\* as its most significant bit: Sum_k ((w >> c_k) & 1) << (m - 1 - k)
MsbWord(control, w) ==
    ISum([k \in 0 .. Len(control) - 1 |->
              Bit(w, control[k + 1]) * Pow2(Len(control) - 1 - k)],
         0, Len(control) - 1)

\* C23: a ConditionalGate step changes the column of a shot only when the
\* classical bits of the shot named by control, the first index of control
\* read as the most significant bit, form the word target.
C23_FirstControlMostSignificant ==
    [][Replays("ConditionalGate") =>
        \A s \in DOMAIN Unwrap(q_state) :
            Unwrap(q_state')[s] # Unwrap(q_state)[s] =>
                MsbWord(ops[pc].control, Unwrap(c_state)[s]) = ops[pc].target]_vars

---------------------------------------------------------------------------

Next ==
    \/ add_gate
    \/ add_conditional_gate
    \/ measure_basis
    \/ measure_all_basis
    \/ peek_all
    \/ add_reset
    \/ add_reset_all
    \/ barrier
    \/ execute
    \/ reexecute
    \/ ReplayGate
    \/ ReplayConditionalGate
    \/ ReplayMeasure
    \/ ReplayMeasureAll
    \/ ReplayPeekAll
    \/ ReplayReset
    \/ ReplayResetAll
    \/ ReplayBarrier
    \/ histogram
    \/ histogram_vec
    \/ histogram_string

Spec == Init /\ [][Next]_vars

====
